---- MODULE Spec2Model ----
(***************************************************************************)
(* Veil shielded pool: the on-chain program (crates/program) and the       *)
(* client-side Poseidon Merkle tree (crates/core/src/crypto/merkle.rs).    *)
(*                                                                         *)
(* 32-byte values and field elements are modelled symbolically:            *)
(*   <<n>>                a 32-byte constant, named by the integer n       *)
(*                        (<<0>> is [0u8; 32] / Fr::from(0))               *)
(*   <<"keccak", l, r>>   keccak::hash(l || r)                             *)
(*   <<"poseidon", a, b>> Poseidon::hash2(a, b)                            *)
(* so that both hashes are collision free and differ from every constant.  *)
(***************************************************************************)
EXTENDS Integers, Sequences, FiniteSets, TLC

(***************************************************************************)
(* Bounds of the model.                                                    *)
(***************************************************************************)
\* stands for TREE_DEPTH = 20 (merkle.rs:15): the depth of both trees
DepthBound == 2
\* stands for ROOT_HISTORY_SIZE = 30 (state.rs:11): slots of the root history
HistoryBound == 2
\* instructions that append are only submitted while fewer leaves exist
MaxLeaves == 4
\* lamports the depositor owns at the start
DepositorFunds == 2
\* SPL tokens the depositor owns at the start
DepositorTokens == 1
\* largest amount an instruction carries
MaxAmount == 2
\* last slot of the clock
MaxSlot == 1
\* notes the prover inserts into its tree
MaxNotes == 3
FieldModulus == 13
MaxInputs == 4
\* stands for the 32 bytes of a BN254 base-field coordinate
CoordinateBytes == 2

TREE_DEPTH == DepthBound
ROOT_HISTORY_SIZE == HistoryBound
MAX_LEAVES == 2 ^ TREE_DEPTH
MAX_COMMITMENTS == 2 ^ TREE_DEPTH
MVP_PROOF_SIZE == 96
MvpProof_SIZE == 64 + 32
PROOF_SIZE == 256
NUM_PUBLIC_INPUTS == 3
DEFAULT_RELAYER_FEE_BPS == 30

(***************************************************************************)
(* Input domains.                                                          *)
(***************************************************************************)
ZERO32 == <<0>>
\* the keccak constant 0x290dec... (first byte 0x29 = 41)
ZERO_VALUE == <<41>>
Commitments == {<<1>>, <<2>>}
Nullifiers == {<<11>>, <<12>>}
Recipients == {"r1", "r2"}
Amounts == 0 .. MaxAmount
\* a root no tree of the model ever had
BogusRoot == <<99>>
PoolKey == "pool"
\* the prover's inputs: 32-byte secrets, note amount, blinding factors, the
\* asset id of native SOL, and a field element unrelated to any of them
Secrets == {"s1", "s2"}
NoteAmounts == {<<1000>>}
Blindings == {<<12345>>, <<67890>>}
NativeAsset == <<0>>
UnrelatedFr == <<777>>

(***************************************************************************)
(* crates/program/src/merkle.rs                                            *)
(***************************************************************************)
hash_pair(left, right) == <<"keccak", left, right>>

RECURSIVE get_zero_hash(_)
get_zero_hash(level) ==
    IF level = 0 THEN ZERO_VALUE
    ELSE hash_pair(get_zero_hash(level - 1), get_zero_hash(level - 1))

\* filled_subtrees is indexed 1 .. TREE_DEPTH for levels 0 .. TREE_DEPTH - 1
IncrementalMerkleTree_new ==
    [ next_index      |-> 0,
      filled_subtrees |-> [i \in 1 .. TREE_DEPTH |-> get_zero_hash(i - 1)],
      current_root    |-> get_zero_hash(TREE_DEPTH) ]

\* variant: the loop without the write to filled_subtrees
RECURSIVE InsertWalk_no_store(_, _, _, _)
InsertWalk_no_store(level, current_hash, current_index, filled) ==
    IF level = TREE_DEPTH THEN [hash |-> current_hash, filled |-> filled]
    ELSE IF current_index % 2 = 0
         THEN InsertWalk_no_store(level + 1,
                                  hash_pair(current_hash, get_zero_hash(level)),
                                  current_index \div 2,
                                  filled)
         ELSE InsertWalk_no_store(level + 1,
                                  hash_pair(filled[level + 1], current_hash),
                                  current_index \div 2,
                                  filled)

\* the loop of IncrementalMerkleTree::insert from `level` upwards
RECURSIVE InsertWalk(_, _, _, _)
InsertWalk(level, current_hash, current_index, filled) ==
    IF level = TREE_DEPTH THEN [hash |-> current_hash, filled |-> filled]
    ELSE IF current_index % 2 = 0
         THEN InsertWalk(level + 1,
                         hash_pair(current_hash, get_zero_hash(level)),
                         current_index \div 2,
                         [filled EXCEPT ![level + 1] = current_hash])
         ELSE InsertWalk(level + 1,
                         hash_pair(filled[level + 1], current_hash),
                         current_index \div 2,
                         filled)

\* variant: insert without the capacity check
IncrementalMerkleTree_insert_unchecked(tree, leaf) ==
    LET w == InsertWalk(0, leaf, tree.next_index, tree.filled_subtrees)
    IN [ err        |-> "Ok",
         tree       |-> [ next_index      |-> tree.next_index + 1,
                          filled_subtrees |-> w.filled,
                          current_root    |-> w.hash ],
         leaf_index |-> tree.next_index ]

\* IncrementalMerkleTree::insert: [err, tree, leaf_index]
IncrementalMerkleTree_insert(tree, leaf) ==
    IF ~(tree.next_index < MAX_LEAVES)
    THEN [err |-> "TreeFull", tree |-> tree, leaf_index |-> 0]
    ELSE LET w == InsertWalk(0, leaf, tree.next_index, tree.filled_subtrees)
         IN [ err        |-> "Ok",
              tree       |-> [ next_index      |-> tree.next_index + 1,
                               filled_subtrees |-> w.filled,
                               current_root    |-> w.hash ],
              leaf_index |-> tree.next_index ]

\* the `level_nodes` vector of generate_merkle_proof after `level` rounds of
\* pairwise hashing; level 0 is the leaves padded with get_zero_hash(0)
RECURSIVE level_nodes(_, _)
level_nodes(leafs, level) ==
    IF level = 0
    THEN [i \in 1 .. 2 ^ TREE_DEPTH |->
             IF i <= Len(leafs) THEN leafs[i] ELSE get_zero_hash(0)]
    ELSE LET below == level_nodes(leafs, level - 1)
         IN [i \in 1 .. (Len(below) \div 2) |->
                hash_pair(below[2 * i - 1], below[2 * i])]

\* the single node left after TREE_DEPTH rounds
FullTreeRoot(leafs) == level_nodes(leafs, TREE_DEPTH)[1]

(***************************************************************************)
(* crates/core/src/crypto/merkle.rs                                        *)
(***************************************************************************)
poseidon_hash2(a, b) == <<"poseidon", a, b>>

\* compute_zero_hashes()[level], with zeros[0] = Fr::from(0)
RECURSIVE compute_zero_hashes(_)
compute_zero_hashes(level) ==
    IF level = 0 THEN ZERO32
    ELSE poseidon_hash2(compute_zero_hashes(level - 1),
                        compute_zero_hashes(level - 1))

PoseidonMerkleTree_new ==
    [ next_index      |-> 0,
      filled_subtrees |-> [i \in 1 .. TREE_DEPTH |-> compute_zero_hashes(i - 1)],
      current_root    |-> compute_zero_hashes(TREE_DEPTH),
      leaves          |-> << >> ]

RECURSIVE PoseidonInsertWalk(_, _, _, _)
PoseidonInsertWalk(level, current, index, filled) ==
    IF level = TREE_DEPTH THEN [hash |-> current, filled |-> filled]
    ELSE IF index % 2 = 0
         THEN PoseidonInsertWalk(level + 1,
                                 poseidon_hash2(current, compute_zero_hashes(level)),
                                 index \div 2,
                                 [filled EXCEPT ![level + 1] = current])
         ELSE PoseidonInsertWalk(level + 1,
                                 poseidon_hash2(filled[level + 1], current),
                                 index \div 2,
                                 filled)

PoseidonMerkleTree_insert(tree, leaf) ==
    IF tree.next_index >= MAX_LEAVES
    THEN [err |-> "TreeFull", tree |-> tree, leaf_index |-> 0]
    ELSE LET w == PoseidonInsertWalk(0, leaf, tree.next_index, tree.filled_subtrees)
         IN [ err        |-> "Ok",
              tree       |-> [ next_index      |-> tree.next_index + 1,
                               filled_subtrees |-> w.filled,
                               current_root    |-> w.hash,
                               leaves          |-> Append(tree.leaves, leaf) ],
              leaf_index |-> tree.next_index ]

\* the `level_nodes` vector of PoseidonMerkleTree::generate_proof
RECURSIVE poseidon_level_nodes(_, _)
poseidon_level_nodes(leafs, level) ==
    IF level = 0
    THEN [i \in 1 .. 2 ^ TREE_DEPTH |->
             IF i <= Len(leafs) THEN leafs[i] ELSE compute_zero_hashes(0)]
    ELSE LET below == poseidon_level_nodes(leafs, level - 1)
         IN [i \in 1 .. (Len(below) \div 2) |->
                poseidon_hash2(below[2 * i - 1], below[2 * i])]

PoseidonFullTreeRoot(leafs) == poseidon_level_nodes(leafs, TREE_DEPTH)[1]

\* variant: the sibling is always taken to the right of the path
generate_proof_right_sibling(tree, leaf_index) ==
    IF leaf_index >= tree.next_index
    THEN [err |-> "InvalidLeafIndex", siblings |-> << >>, indices |-> << >>,
          leaf_index |-> leaf_index]
    ELSE [ err        |-> "Ok",
           siblings   |-> [l \in 1 .. TREE_DEPTH |->
                             poseidon_level_nodes(tree.leaves, l - 1)
                                [((leaf_index \div (2 ^ (l - 1))) \div 2) * 2 + 2]],
           indices    |-> [l \in 1 .. TREE_DEPTH |->
                             (leaf_index \div (2 ^ (l - 1))) % 2 = 1],
           leaf_index |-> leaf_index ]

\* PoseidonMerkleTree::generate_proof: [err, siblings, indices, leaf_index];
\* at level l - 1 the path is at current_index = leaf_index / 2^(l-1), and
\* level_nodes is 1-indexed here
generate_proof(tree, leaf_index) ==
    IF leaf_index >= tree.next_index
    THEN [err |-> "InvalidLeafIndex", siblings |-> << >>, indices |-> << >>,
          leaf_index |-> leaf_index]
    ELSE [ err        |-> "Ok",
           siblings   |-> [l \in 1 .. TREE_DEPTH |->
                             LET current_index == leaf_index \div (2 ^ (l - 1))
                                 is_right      == current_index % 2 = 1
                                 sibling_index == IF is_right THEN current_index - 1
                                                  ELSE current_index + 1
                             IN poseidon_level_nodes(tree.leaves, l - 1)[sibling_index + 1]],
           indices    |-> [l \in 1 .. TREE_DEPTH |->
                             (leaf_index \div (2 ^ (l - 1))) % 2 = 1],
           leaf_index |-> leaf_index ]

\* the fold of MerklePath::verify over the first n (sibling, is_right) pairs
RECURSIVE MerklePathFold(_, _, _)
MerklePathFold(path, leaf, n) ==
    IF n = 0 THEN leaf
    ELSE LET current == MerklePathFold(path, leaf, n - 1)
         IN IF path.indices[n]
            THEN poseidon_hash2(path.siblings[n], current)
            ELSE poseidon_hash2(current, path.siblings[n])

\* variant: only the lengths are checked
MerklePath_verify_lengths_only(path, leaf, expected_root) ==
    ~(Len(path.siblings) # TREE_DEPTH \/ Len(path.indices) # TREE_DEPTH)

\* MerklePath::verify
MerklePath_verify(path, leaf, expected_root) ==
    IF Len(path.siblings) # TREE_DEPTH \/ Len(path.indices) # TREE_DEPTH
    THEN FALSE
    ELSE MerklePathFold(path, leaf, TREE_DEPTH) = expected_root

(***************************************************************************)
(* crates/program/src/state.rs                                             *)
(***************************************************************************)
\* the bytes of a pool account before Initialize has run
PoolZeroed ==
    [ authority            |-> "none",
      merkle_tree          |-> [ next_index      |-> 0,
                                 filled_subtrees |-> [i \in 1 .. TREE_DEPTH |-> ZERO32],
                                 current_root    |-> ZERO32 ],
      root_history         |-> [i \in 1 .. ROOT_HISTORY_SIZE |-> ZERO32],
      root_history_index   |-> 0,
      nullifier_count      |-> 0,
      relayer_fee_bps      |-> 0,
      total_fees_collected |-> 0 ]

PrivacyPool_initialize(p, authority) ==
    [ authority            |-> authority,
      merkle_tree          |-> IncrementalMerkleTree_new,
      root_history         |-> [i \in 1 .. ROOT_HISTORY_SIZE |-> ZERO32],
      root_history_index   |-> 0,
      nullifier_count      |-> 0,
      relayer_fee_bps      |-> DEFAULT_RELAYER_FEE_BPS,
      total_fees_collected |-> 0 ]

\* variant: the index returned is read after the insert
add_commitment_index_after(p, commitment) ==
    LET old_root == p.merkle_tree.current_root
        ins      == IncrementalMerkleTree_insert(p.merkle_tree, commitment)
    IN IF ins.err # "Ok"
       THEN [err |-> "PoolFull", pool |-> p, leaf_index |-> 0]
       ELSE [ err  |-> "Ok",
              pool |-> [p EXCEPT
                          !.merkle_tree = ins.tree,
                          !.root_history[p.root_history_index + 1] = old_root,
                          !.root_history_index =
                              (p.root_history_index + 1) % ROOT_HISTORY_SIZE],
              leaf_index |-> ins.tree.next_index ]

\* PrivacyPool::add_commitment: [err, pool, leaf_index]
add_commitment(p, commitment) ==
    LET old_root == p.merkle_tree.current_root
        ins      == IncrementalMerkleTree_insert(p.merkle_tree, commitment)
    IN IF ins.err # "Ok"
       THEN [err |-> "PoolFull", pool |-> p, leaf_index |-> 0]
       ELSE [ err  |-> "Ok",
              pool |-> [p EXCEPT
                          !.merkle_tree = ins.tree,
                          !.root_history[p.root_history_index + 1] = old_root,
                          !.root_history_index =
                              (p.root_history_index + 1) % ROOT_HISTORY_SIZE],
              leaf_index |-> ins.leaf_index ]

current_root(p) == p.merkle_tree.current_root

commitment_count(p) == p.merkle_tree.next_index

\* variant: a history slot matches even when it is zero
is_valid_root_any_slot(p, root) ==
    \/ root = p.merkle_tree.current_root
    \/ \E i \in 1 .. ROOT_HISTORY_SIZE : p.root_history[i] = root

is_valid_root(p, root) ==
    \/ root = p.merkle_tree.current_root
    \/ \E i \in 1 .. ROOT_HISTORY_SIZE :
          p.root_history[i] = root /\ p.root_history[i] # ZERO32

\* variant: the spend is not counted
record_nullifier_spent_uncounted(p) == p

\* PrivacyPool::record_nullifier_spent
record_nullifier_spent(p) == [p EXCEPT !.nullifier_count = p.nullifier_count + 1]

(***************************************************************************)
(* crates/program/src/nullifier.rs                                         *)
(***************************************************************************)
\* a NullifierMarker account; the PDA of (pool, nf) holds << >> until it is
\* created and <<marker>> afterwards
NullifierMarker(pool_key, nullifier, spent_at) ==
    [pool |-> pool_key, nullifier |-> nullifier, spent_at |-> spent_at]

(***************************************************************************)
(* crates/program/src/groth16.rs                                           *)
(***************************************************************************)
\* A proof is its length in bytes, whether its first 64 bytes (signature)
\* and its bytes 64..96 (public key) hold a nonzero byte, and the public
\* inputs (root, nullifier, commitment) its prover generated it for.
Proof(len, sig_nonzero, pk_nonzero, root, nullifier, commitment) ==
    [ len |-> len, sig_nonzero |-> sig_nonzero, pk_nonzero |-> pk_nonzero,
      root |-> root, nullifier |-> nullifier, commitment |-> commitment ]

\* vk::ALPHA_G1 = [0u8; 64]
ALPHA_G1 == [i \in 1 .. 64 |-> 0]

is_vk_initialized == \E i \in 1 .. 64 : ALPHA_G1[i] # 0

Groth16Proof_from_bytes(proof) == IF proof.len < PROOF_SIZE THEN "None" ELSE "Some"

\* Groth16Verifier::verify: the pairing check passes exactly for the public
\* inputs the proof was generated for
Groth16Verifier_verify(proof, public_inputs) ==
    <<proof.root, proof.nullifier, proof.commitment>> = public_inputs

\* TransferPublicInputs::to_verifier_inputs
TransferPublicInputs_to_verifier_inputs(self) ==
    <<self.merkle_root, self.nullifier, self.new_commitment>>

\* variant: the nullifier ahead of the root
verifier_public_inputs_nullifier_first(merkle_root, nullifier, new_commitment) ==
    <<nullifier, merkle_root, new_commitment>>

\* the [[u8; 32]; NUM_PUBLIC_INPUTS] array verify_groth16_transfer hands to
\* the verifier
verifier_public_inputs(merkle_root, nullifier, new_commitment) ==
    <<merkle_root, nullifier, new_commitment>>

\* verify_groth16_transfer: [err, valid]
verify_groth16_transfer(proof, merkle_root, nullifier, new_commitment) ==
    IF Groth16Proof_from_bytes(proof) = "None"
    THEN [err |-> "InvalidProofSize", valid |-> FALSE]
    ELSE IF ~is_vk_initialized
    THEN [err |-> "Ok", valid |-> TRUE]
    ELSE LET public_inputs == verifier_public_inputs(merkle_root, nullifier, new_commitment)
         IN [err |-> "Ok", valid |-> Groth16Verifier_verify(proof, public_inputs)]

(***************************************************************************)
(* crates/program/src/verification.rs                                      *)
(***************************************************************************)
\* variant: a length above a size is taken for that size
ProofType_detect_at_least(proof) ==
    IF proof.len >= PROOF_SIZE THEN "Groth16"
    ELSE IF proof.len >= MVP_PROOF_SIZE THEN "Signature"
    ELSE "None"

ProofType_detect(proof) ==
    IF proof.len = MVP_PROOF_SIZE THEN "Signature"
    ELSE IF proof.len = PROOF_SIZE THEN "Groth16"
    ELSE "None"

MvpProof_from_bytes(proof) == IF proof.len < MvpProof_SIZE THEN "None" ELSE "Some"

build_transfer_message(nullifier, new_commitment, root) ==
    <<"keccak", nullifier, new_commitment, root>>

build_unshield_message(nullifier, recipient, amount, root) ==
    <<"keccak", nullifier, recipient, amount, root>>

\* verify_signature: the message takes no part in the result
verify_signature(message, proof) == proof.sig_nonzero /\ proof.pk_nonzero

\* verify_transfer_proof: [err, valid]
verify_transfer_proof(proof, nullifier, new_commitment, root) ==
    LET proof_type == ProofType_detect(proof)
    IN IF proof_type = "None"
       THEN [err |-> "InvalidProofFormat", valid |-> FALSE]
       ELSE IF proof_type = "Signature"
       THEN IF MvpProof_from_bytes(proof) = "None"
            THEN [err |-> "InvalidProofFormat", valid |-> FALSE]
            ELSE [ err   |-> "Ok",
                   valid |-> verify_signature(
                                build_transfer_message(nullifier, new_commitment, root),
                                proof) ]
       ELSE LET g == verify_groth16_transfer(proof, root, nullifier, new_commitment)
            IN IF g.err # "Ok"
               THEN [err |-> "VerificationFailed", valid |-> FALSE]
               ELSE g

\* verify_unshield_proof: [err, valid]
verify_unshield_proof(proof, nullifier, recipient, amount, root) ==
    LET proof_type == ProofType_detect(proof)
    IN IF proof_type = "None"
       THEN [err |-> "InvalidProofFormat", valid |-> FALSE]
       ELSE IF proof_type = "Signature"
       THEN IF MvpProof_from_bytes(proof) = "None"
            THEN [err |-> "InvalidProofFormat", valid |-> FALSE]
            ELSE [ err   |-> "Ok",
                   valid |-> verify_signature(
                                build_unshield_message(nullifier, recipient, amount, root),
                                proof) ]
       ELSE LET burn_commitment == ZERO32
                g == verify_groth16_transfer(proof, root, nullifier, burn_commitment)
            IN IF g.err # "Ok"
               THEN [err |-> "VerificationFailed", valid |-> FALSE]
               ELSE g

(***************************************************************************)
(* crates/program/src/instructions.rs and crates/core/src/error.rs: the    *)
(* size checks on instruction data and in the client library.              *)
(***************************************************************************)
\* TransferData::validate
TransferData_validate(proof) ==
    LET valid_size == proof.len = MVP_PROOF_SIZE \/ proof.len = PROOF_SIZE
    IN IF ~valid_size THEN "InvalidProof" ELSE "Ok"

\* UnshieldData::validate
UnshieldData_validate(amount, proof) ==
    IF ~(amount > 0) THEN "InvalidAmount"
    ELSE LET valid_size == proof.len = MVP_PROOF_SIZE \/ proof.len = PROOF_SIZE
         IN IF ~valid_size THEN "InvalidProof" ELSE "Ok"

\* TransferData::proof_type / UnshieldData::proof_type
proof_type(proof) == ProofType_detect(proof)

\* validation::validate_proof_size and its two local sizes
MVP_SIZE == 96
GROTH16_SIZE == 256
validate_proof_size(proof) ==
    IF proof.len # MVP_SIZE /\ proof.len # GROTH16_SIZE THEN "InvalidInput" ELSE "Ok"

(***************************************************************************)
(* Host programs called by CPI: the System Program's transfer and the SPL  *)
(* Token Program's transfer move `amount` if the source holds it.          *)
(***************************************************************************)
\* system_program::transfer / token::transfer: [err, balances]
cpi_transfer(balances, from, to, amount, err) ==
    IF balances[from] < amount
    THEN [err |-> err, balances |-> balances]
    ELSE [ err      |-> "Ok",
           balances |-> [balances EXCEPT ![from] = @ - amount,
                                         ![to]   = balances[to] + amount] ]

(***************************************************************************)
(* crates/program/src/processor.rs                                         *)
(* A handler returns its error and the accounts as it left them; what a    *)
(* failed handler wrote is discarded by the instruction (see X_ix below).   *)
(***************************************************************************)
process_initialize(p, authority) ==
    [err |-> "Ok", pool |-> PrivacyPool_initialize(p, authority)]

process_shield_sol(p, lamports_, commitment, amount) ==
    IF ~(amount > 0)
    THEN [err |-> "InvalidAmount", pool |-> p, balances |-> lamports_, leaf_index |-> 0]
    ELSE IF ~(commitment_count(p) < MAX_COMMITMENTS)
    THEN [err |-> "PoolFull", pool |-> p, balances |-> lamports_, leaf_index |-> 0]
    ELSE LET t == cpi_transfer(lamports_, "depositor", "vault", amount,
                               "InsufficientLamports")
         IN IF t.err # "Ok"
            THEN [err |-> t.err, pool |-> p, balances |-> lamports_, leaf_index |-> 0]
            ELSE LET a == add_commitment(p, commitment)
                 IN [ err |-> a.err, pool |-> a.pool, balances |-> t.balances,
                      leaf_index |-> a.leaf_index ]

process_shield(p, tokens_, commitment, amount) ==
    IF ~(amount > 0)
    THEN [err |-> "InvalidAmount", pool |-> p, balances |-> tokens_, leaf_index |-> 0]
    ELSE IF ~(commitment_count(p) < MAX_COMMITMENTS)
    THEN [err |-> "PoolFull", pool |-> p, balances |-> tokens_, leaf_index |-> 0]
    ELSE LET t == cpi_transfer(tokens_, "depositor", "vault", amount,
                               "SplInsufficientFunds")
         IN IF t.err # "Ok"
            THEN [err |-> t.err, pool |-> p, balances |-> tokens_, leaf_index |-> 0]
            ELSE LET a == add_commitment(p, commitment)
                 IN [ err |-> a.err, pool |-> a.pool, balances |-> t.balances,
                      leaf_index |-> a.leaf_index ]

\* process_transfer: [err, pool, marker, leaf_index]
process_transfer(p, nullifier, new_commitment, proof, clock_slot) ==
    IF ~(proof.len >= MvpProof_SIZE)
    THEN [err |-> "InvalidProof", pool |-> p, marker |-> << >>, leaf_index |-> 0]
    ELSE
    LET root == current_root(p)
        v    == verify_transfer_proof(proof, nullifier, new_commitment, root)
    IN IF v.err # "Ok"
       THEN [err |-> v.err, pool |-> p, marker |-> << >>, leaf_index |-> 0]
       ELSE IF ~v.valid
       THEN [err |-> "InvalidProof", pool |-> p, marker |-> << >>, leaf_index |-> 0]
       ELSE LET marker == NullifierMarker(PoolKey, nullifier, clock_slot)
                p1     == record_nullifier_spent(p)
                a      == add_commitment(p1, new_commitment)
            IN [ err |-> a.err, pool |-> a.pool, marker |-> <<marker>>,
                 leaf_index |-> a.leaf_index ]

\* variant: no vault check
vault_covers_unchecked(vault_lamports, amount) == TRUE

\* the vault check of process_unshield_sol
vault_covers(vault_lamports, amount) == vault_lamports >= amount

\* process_unshield_sol: [err, pool, marker, balances]
process_unshield_sol(p, lamports_, recipient, nullifier, amount, proof, clock_slot) ==
    IF ~(amount > 0)
    THEN [err |-> "InvalidAmount", pool |-> p, marker |-> << >>, balances |-> lamports_]
    ELSE IF ~(proof.len >= MvpProof_SIZE)
    THEN [err |-> "InvalidProof", pool |-> p, marker |-> << >>, balances |-> lamports_]
    ELSE
    LET root == current_root(p)
        v    == verify_unshield_proof(proof, nullifier, recipient, amount, root)
    IN IF v.err # "Ok"
       THEN [err |-> v.err, pool |-> p, marker |-> << >>, balances |-> lamports_]
       ELSE IF ~v.valid
       THEN [err |-> "InvalidProof", pool |-> p, marker |-> << >>, balances |-> lamports_]
       ELSE LET marker == NullifierMarker(PoolKey, nullifier, clock_slot)
                p1     == record_nullifier_spent(p)
            IN IF ~vault_covers(lamports_["vault"], amount)
               THEN [ err |-> "InsufficientFunds", pool |-> p1,
                      marker |-> <<marker>>, balances |-> lamports_ ]
               ELSE [ err |-> "Ok", pool |-> p1, marker |-> <<marker>>,
                      balances |-> [lamports_ EXCEPT
                                      !["vault"]   = @ - amount,
                                      ![recipient] = lamports_[recipient] + amount] ]

\* process_unshield: [err, pool, marker, balances]
process_unshield(p, tokens_, recipient, nullifier, amount, proof, clock_slot) ==
    IF ~(amount > 0)
    THEN [err |-> "InvalidAmount", pool |-> p, marker |-> << >>, balances |-> tokens_]
    ELSE IF ~(proof.len >= MvpProof_SIZE)
    THEN [err |-> "InvalidProof", pool |-> p, marker |-> << >>, balances |-> tokens_]
    ELSE
    LET root == current_root(p)
        v    == verify_unshield_proof(proof, nullifier, recipient, amount, root)
    IN IF v.err # "Ok"
       THEN [err |-> v.err, pool |-> p, marker |-> << >>, balances |-> tokens_]
       ELSE IF ~v.valid
       THEN [err |-> "InvalidProof", pool |-> p, marker |-> << >>, balances |-> tokens_]
       ELSE LET marker == NullifierMarker(PoolKey, nullifier, clock_slot)
                p1     == record_nullifier_spent(p)
                t      == cpi_transfer(tokens_, "vault", recipient, amount,
                                       "SplInsufficientFunds")
            IN [ err |-> t.err, pool |-> p1, marker |-> <<marker>>,
                 balances |-> t.balances ]

(***************************************************************************)
(* crates/core/src/crypto/nullifier.rs                                     *)
(* Byte strings are strings, a field element made from bytes is            *)
(* <<"fr", bytes>>, one made from an integer n is <<n>>.                    *)
(***************************************************************************)
Fr_from_le_bytes_mod_order(bytes) == <<"fr", bytes>>

Fr_from(n) == <<n>>

SPENDING_KEY_DOMAIN == "NYX_SPENDING_KEY"

NULLIFIER_DOMAIN == "NYX_NULLIFIER"

\* blake3::Hasher over the updates fed to it, in order
blake3(first, second) == <<"blake3", first, second>>

\* SpendingKey::from_secret
SpendingKey_from_secret(secret) ==
    poseidon_hash2(Fr_from_le_bytes_mod_order(secret),
                   Fr_from_le_bytes_mod_order(SPENDING_KEY_DOMAIN))

\* Nullifier::derive
Nullifier_derive(spending_key, leaf_index) ==
    LET index_with_domain ==
            Fr_from_le_bytes_mod_order(blake3(leaf_index, NULLIFIER_DOMAIN))
    IN poseidon_hash2(spending_key, index_with_domain)

\* Nullifier::from_secret
Nullifier_from_secret(secret, leaf_index) ==
    Nullifier_derive(SpendingKey_from_secret(secret), leaf_index)

(***************************************************************************)
(* crates/core/src/proof/gadgets: a gadget is modelled by the value it     *)
(* assigns to its output variable; a constraint by whether the assignment  *)
(* satisfies it.                                                           *)
(***************************************************************************)
\* poseidon_hash2_gadget: the output variable of PoseidonGadget::hash2
poseidon_hash2_gadget(a, b) == <<"poseidon", a, b>>

\* MerklePathGadget::new_witness
MerklePathGadget_new_witness(siblings, indices) ==
    IF Len(siblings) # TREE_DEPTH \/ Len(indices) # TREE_DEPTH
    THEN [err |-> "AssignmentMissing", siblings |-> << >>, indices |-> << >>]
    ELSE [err |-> "Ok", siblings |-> siblings, indices |-> indices]

\* MerklePathGadget::compute_root over the first n levels
RECURSIVE MerklePathGadget_compute_root(_, _, _)
MerklePathGadget_compute_root(path, leaf, n) ==
    IF n = 0 THEN leaf
    ELSE LET current  == MerklePathGadget_compute_root(path, leaf, n - 1)
             sibling  == path.siblings[n]
             is_right == path.indices[n]
             left     == IF is_right THEN sibling ELSE current
             right    == IF is_right THEN current ELSE sibling
         IN poseidon_hash2_gadget(left, right)

\* variant: the computed root is not constrained
MerklePathGadget_verify_unenforced(path, leaf, expected_root) == TRUE

\* MerklePathGadget::verify: computed_root.enforce_equal(expected_root)
MerklePathGadget_verify(path, leaf, expected_root) ==
    MerklePathGadget_compute_root(path, leaf, TREE_DEPTH) = expected_root

(***************************************************************************)
(* crates/core/src/proof/transfer_circuit.rs                               *)
(***************************************************************************)
\* Option::None
None == << >>

\* TransferCircuit::NUM_PUBLIC_INPUTS
TransferCircuit_NUM_PUBLIC_INPUTS == 3

\* TransferCircuit::default
TransferCircuit_default ==
    [ merkle_root |-> None, nullifier |-> None, new_commitment |-> None,
      sender_secret |-> None, input_amount |-> None, input_blinding |-> None,
      asset_id |-> None, leaf_index |-> None, merkle_path |-> None,
      merkle_indices |-> None, output_blinding |-> None ]

\* TransferCircuit::new
TransferCircuit_new(merkle_root, nullifier, new_commitment, sender_secret, input_amount, input_blinding, asset_id, leaf_index, merkle_path, merkle_indices, output_blinding) ==
    [ merkle_root |-> merkle_root, nullifier |-> nullifier,
      new_commitment |-> new_commitment, sender_secret |-> sender_secret,
      input_amount |-> input_amount, input_blinding |-> input_blinding,
      asset_id |-> asset_id, leaf_index |-> <<leaf_index>>,
      merkle_path |-> merkle_path, merkle_indices |-> merkle_indices,
      output_blinding |-> output_blinding ]

\* compute_commitment of the circuit's tests: the note commitment
compute_commitment(spending_key, amount, blinding, asset_id) ==
    LET h1 == poseidon_hash2(spending_key, amount)
        h2 == poseidon_hash2(blinding, asset_id)
    IN poseidon_hash2(h1, h2)

\* TransferCircuit::generate_constraints:
\* [err, public_inputs (in allocation order), satisfied]
generate_constraints(c) ==
    IF \E f \in {"merkle_root", "nullifier", "new_commitment", "sender_secret",
                 "input_amount", "input_blinding", "asset_id", "leaf_index",
                 "output_blinding", "merkle_path", "merkle_indices"} : c[f] = None
    THEN [err |-> "AssignmentMissing", public_inputs |-> << >>, satisfied |-> FALSE]
    ELSE
    LET merkle_root_var      == c.merkle_root
        nullifier_var        == c.nullifier
        new_commitment_var   == c.new_commitment
        sender_secret_var    == c.sender_secret
        input_amount_var     == c.input_amount
        input_blinding_var   == c.input_blinding
        asset_id_var         == c.asset_id
        leaf_index_var       == Fr_from(c.leaf_index[1])
        output_blinding_var  == c.output_blinding
        \* constraint 1
        domain_separator     == Fr_from_le_bytes_mod_order("NYX_SPENDING_KEY")
        spending_key_var     == poseidon_hash2_gadget(sender_secret_var, domain_separator)
        \* constraint 2
        h1                   == poseidon_hash2_gadget(spending_key_var, input_amount_var)
        h2                   == poseidon_hash2_gadget(input_blinding_var, asset_id_var)
        input_commitment_var == poseidon_hash2_gadget(h1, h2)
        \* constraint 3
        path_gadget          == MerklePathGadget_new_witness(c.merkle_path, c.merkle_indices)
        \* constraint 4
        nullifier_domain     == Fr_from_le_bytes_mod_order("NYX_NULLIFIER")
        index_with_domain    == poseidon_hash2_gadget(leaf_index_var, nullifier_domain)
        computed_nullifier   == poseidon_hash2_gadget(spending_key_var, index_with_domain)
        \* constraint 5
        h1_out               == poseidon_hash2_gadget(spending_key_var, input_amount_var)
        h2_out               == poseidon_hash2_gadget(output_blinding_var, asset_id_var)
        computed_new_commitment == poseidon_hash2_gadget(h1_out, h2_out)
    IN IF path_gadget.err # "Ok"
       THEN [ err |-> path_gadget.err,
              public_inputs |-> <<merkle_root_var, nullifier_var, new_commitment_var>>,
              satisfied |-> FALSE ]
       ELSE [ err |-> "Ok",
              public_inputs |-> <<merkle_root_var, nullifier_var, new_commitment_var>>,
              satisfied |->
                  /\ MerklePathGadget_verify(path_gadget, input_commitment_var,
                                             merkle_root_var)
                  /\ computed_nullifier = nullifier_var
                  /\ computed_new_commitment = new_commitment_var ]

(***************************************************************************)
(* crates/core/src/crypto/poseidon_constants.rs and crypto/poseidon.rs:    *)
(* the Poseidon permutation computed on numbers.  Fr is scaled to the      *)
(* prime field of FieldModulus elements.  The Merkle and circuit sections  *)
(* above keep hash2 as a term; this section computes it.                   *)
(***************************************************************************)
FULL_ROUNDS == 8
PARTIAL_ROUNDS == 57
WIDTH == 3
NUM_CONSTANTS == WIDTH * (FULL_ROUNDS + PARTIAL_ROUNDS)

Fr == 0 .. FieldModulus - 1
Fr_add(x, y) == (x + y) % FieldModulus
Fr_mul(x, y) == (x * y) % FieldModulus
\* Field::inverse: None for an element without an inverse
Fr_inverse(x) ==
    IF \E y \in Fr : Fr_mul(x, y) = 1
    THEN <<CHOOSE y \in Fr : Fr_mul(x, y) = 1>>
    ELSE None

\* blake3(domain || i || "round_constant") read as a little-endian integer:
\* one fixed integer per index
round_constant_digest(i) == i * i + 7 * i + 3

\* get_round_constants: NUM_CONSTANTS digests reduced into the field
get_round_constants ==
    [k \in 1 .. NUM_CONSTANTS |-> round_constant_digest(k - 1) % FieldModulus]

\* get_mds_matrix: the Cauchy matrix 1 / (x[i] + y[j]), x = 0.., y = WIDTH..
get_mds_matrix ==
    [i \in 1 .. WIDTH |->
        [j \in 1 .. WIDTH |->
            LET sum == ((i - 1) + (WIDTH + j - 1)) % FieldModulus
                inv == Fr_inverse(sum)
            IN  IF inv = None THEN 1 ELSE inv[1]]]

\* a run of the permutation: the state, the position in the constants
\* table, the kinds of the rounds run so far, and whether an index past
\* the end of the table was read (a panic)
PermutationRun(init) ==
    [initial |-> init, state |-> init, round_ctr |-> 0, rounds |-> << >>,
     constants_read |-> 0, panicked |-> FALSE]

\* native s-box: x^5 by two squarings and a product
sbox(x) ==
    LET x2 == Fr_mul(x, x)
        x4 == Fr_mul(x2, x2)
    IN  Fr_mul(x4, x)

\* Poseidon::mds_multiply
Poseidon_mds_multiply(state) ==
    LET m == get_mds_matrix
        new_state(i) ==
            Fr_add(Fr_add(Fr_add(0, Fr_mul(m[i][1], state[1])),
                          Fr_mul(m[i][2], state[2])),
                   Fr_mul(m[i][3], state[3]))
    IN  <<new_state(1), new_state(2), new_state(3)>>

\* state[i] += round_constants[round_ctr + i] for i in 0..3
Poseidon_add_round_constants(run, round_ctr) ==
    LET rc == get_round_constants
    IN  IF round_ctr + 3 > Len(rc)
        THEN [run EXCEPT !.panicked = TRUE]
        ELSE [run EXCEPT !.state = <<Fr_add(run.state[1], rc[round_ctr + 1]),
                                     Fr_add(run.state[2], rc[round_ctr + 2]),
                                     Fr_add(run.state[3], rc[round_ctr + 3])>>,
                         !.constants_read = @ + 3]

\* Poseidon::full_round
Poseidon_full_round(run, round_ctr) ==
    LET added == Poseidon_add_round_constants(run, round_ctr)
    IN  IF added.panicked THEN added
        ELSE [added EXCEPT
                !.state = Poseidon_mds_multiply(<<sbox(added.state[1]),
                                                  sbox(added.state[2]),
                                                  sbox(added.state[3])>>),
                !.rounds = Append(@, "full")]

\* Poseidon::partial_round
Poseidon_partial_round(run, round_ctr) ==
    LET added == Poseidon_add_round_constants(run, round_ctr)
    IN  IF added.panicked THEN added
        ELSE [added EXCEPT
                !.state = Poseidon_mds_multiply(
                              <<sbox(added.state[1]), added.state[2], added.state[3]>>),
                !.rounds = Append(@, "partial")]

\* one of the three loops of Poseidon::permute: n rounds, round_ctr += t
RECURSIVE Poseidon_round_loop(_, _, _)
Poseidon_round_loop(run, n, full) ==
    IF n = 0 \/ run.panicked THEN run
    ELSE LET done == IF full THEN Poseidon_full_round(run, run.round_ctr)
                             ELSE Poseidon_partial_round(run, run.round_ctr)
         IN  Poseidon_round_loop([done EXCEPT !.round_ctr = @ + WIDTH], n - 1, full)

\* Poseidon::permute
Poseidon_permute(run) ==
    LET t  == WIDTH
        rf == FULL_ROUNDS
        rp == PARTIAL_ROUNDS
        first   == Poseidon_round_loop(run, rf \div 2, TRUE)
        partial == Poseidon_round_loop(first, rp, FALSE)
    IN  Poseidon_round_loop(partial, rf \div 2, TRUE)

\* Poseidon::hash2: the run from [0, a, b]; its output is state[0]
Poseidon_hash2(a, b) == Poseidon_permute(PermutationRun(<<0, a, b>>))

\* Poseidon::hash: [err, value]; at most width - 1 inputs, copied into the
\* state after the capacity element
Poseidon_hash(inputs) ==
    IF Len(inputs) = 0 THEN [err |-> "EmptyInput", value |-> None]
    ELSE IF Len(inputs) > WIDTH - 1 THEN [err |-> "InvalidLength", value |-> None]
    ELSE LET state == [i \in 1 .. WIDTH |->
                          IF i >= 2 /\ i - 1 <= Len(inputs) THEN inputs[i - 1] ELSE 0]
             run   == Poseidon_permute(PermutationRun(<<state[1], state[2], state[3]>>))
         IN [err |-> "Ok", value |-> <<run.state[1]>>]

(***************************************************************************)
(* crates/core/src/proof/gadgets/poseidon.rs: the permutation as           *)
(* constraints; the values are those the constraint variables carry.  The  *)
(* state is written out as the WIDTH = 3 elements it has.                  *)
(***************************************************************************)
\* PoseidonGadget::new: the constants and the matrix it allocates
PoseidonGadget_new ==
    [round_constants |-> get_round_constants, mds_matrix |-> get_mds_matrix]

\* PoseidonGadget::sbox
PoseidonGadget_sbox(x) ==
    LET x2 == Fr_mul(x, x)
        x4 == Fr_mul(x2, x2)
    IN  Fr_mul(x4, x)

\* PoseidonGadget::mds_multiply
PoseidonGadget_mds_multiply(gadget, state) ==
    LET RECURSIVE row_sum(_, _)
        row_sum(i, j) ==
            IF j = 0 THEN 0
            ELSE Fr_add(row_sum(i, j - 1), Fr_mul(gadget.mds_matrix[i][j], state[j]))
    IN  <<row_sum(1, WIDTH), row_sum(2, WIDTH), row_sum(3, WIDTH)>>

\* state[i] = state[i] + round_constants[round_ctr + i] for i in 0..WIDTH
PoseidonGadget_add_round_constants(gadget, run, round_ctr) ==
    IF round_ctr + WIDTH > Len(gadget.round_constants)
    THEN [run EXCEPT !.panicked = TRUE]
    ELSE [run EXCEPT !.state = <<Fr_add(run.state[1], gadget.round_constants[round_ctr + 1]),
                                 Fr_add(run.state[2], gadget.round_constants[round_ctr + 2]),
                                 Fr_add(run.state[3], gadget.round_constants[round_ctr + 3])>>,
                     !.constants_read = @ + WIDTH]

\* PoseidonGadget::full_round
PoseidonGadget_full_round(gadget, run, round_ctr) ==
    LET added == PoseidonGadget_add_round_constants(gadget, run, round_ctr)
    IN  IF added.panicked THEN added
        ELSE [added EXCEPT
                !.state = PoseidonGadget_mds_multiply(gadget,
                              <<PoseidonGadget_sbox(added.state[1]),
                                PoseidonGadget_sbox(added.state[2]),
                                PoseidonGadget_sbox(added.state[3])>>),
                !.rounds = Append(@, "full")]

\* variant: the partial round applies the s-box to every element
PoseidonGadget_partial_round_sbox_all(gadget, run, round_ctr) ==
    LET added == PoseidonGadget_add_round_constants(gadget, run, round_ctr)
    IN  IF added.panicked THEN added
        ELSE [added EXCEPT
                !.state = PoseidonGadget_mds_multiply(gadget,
                              <<PoseidonGadget_sbox(added.state[1]),
                                PoseidonGadget_sbox(added.state[2]),
                                PoseidonGadget_sbox(added.state[3])>>),
                !.rounds = Append(@, "partial")]

\* PoseidonGadget::partial_round
PoseidonGadget_partial_round(gadget, run, round_ctr) ==
    LET added == PoseidonGadget_add_round_constants(gadget, run, round_ctr)
    IN  IF added.panicked THEN added
        ELSE [added EXCEPT
                !.state = PoseidonGadget_mds_multiply(gadget,
                              <<PoseidonGadget_sbox(added.state[1]), added.state[2],
                                added.state[3]>>),
                !.rounds = Append(@, "partial")]

\* one of the three loops of PoseidonGadget::permute
RECURSIVE PoseidonGadget_round_loop(_, _, _, _)
PoseidonGadget_round_loop(gadget, run, n, full) ==
    IF n = 0 \/ run.panicked THEN run
    ELSE LET done == IF full
                     THEN PoseidonGadget_full_round(gadget, run, run.round_ctr)
                     ELSE PoseidonGadget_partial_round(gadget, run, run.round_ctr)
         IN  PoseidonGadget_round_loop(gadget, [done EXCEPT !.round_ctr = @ + WIDTH],
                                       n - 1, full)

\* PoseidonGadget::permute
PoseidonGadget_permute(gadget, run) ==
    LET rf == FULL_ROUNDS
        rp == PARTIAL_ROUNDS
        first   == PoseidonGadget_round_loop(gadget, run, rf \div 2, TRUE)
        partial == PoseidonGadget_round_loop(gadget, first, rp, FALSE)
    IN  PoseidonGadget_round_loop(gadget, partial, rf \div 2, TRUE)

\* PoseidonGadget::hash2 behind the standalone poseidon_hash2_gadget
PoseidonGadget_hash2(a, b) ==
    PoseidonGadget_permute(PoseidonGadget_new, PermutationRun(<<0, a, b>>))

\* PoseidonGadget::hash_sponge over the inputs from position `from` on:
\* each chunk of rate = WIDTH - 1 inputs is added into state[1..], then the
\* state is permuted; the result is state[0]
RECURSIVE PoseidonGadget_absorb(_, _, _, _)
PoseidonGadget_absorb(gadget, state, inputs, from) ==
    IF from > Len(inputs) THEN state
    ELSE LET rate     == WIDTH - 1
             chunk    == SubSeq(inputs, from,
                                IF from + rate - 1 <= Len(inputs)
                                THEN from + rate - 1 ELSE Len(inputs))
             absorbed == [i \in 1 .. WIDTH |->
                             IF i >= 2 /\ i - 1 <= Len(chunk)
                             THEN Fr_add(state[i], chunk[i - 1]) ELSE state[i]]
             run      == PoseidonGadget_permute(gadget,
                             PermutationRun(<<absorbed[1], absorbed[2], absorbed[3]>>))
         IN PoseidonGadget_absorb(gadget, run.state, inputs, from + rate)

PoseidonGadget_hash_sponge(gadget, inputs) ==
    LET state == <<0, 0, 0>>
    IN <<PoseidonGadget_absorb(gadget, state, inputs, 1)[1]>>

\* PoseidonGadget::hash behind the standalone poseidon_hash_gadget: [err, value]
PoseidonGadget_hash(inputs) ==
    LET gadget == PoseidonGadget_new
    IN IF Len(inputs) = 0 THEN [err |-> "AssignmentMissing", value |-> None]
       ELSE IF Len(inputs) > WIDTH - 1
       THEN [err |-> "Ok", value |-> PoseidonGadget_hash_sponge(gadget, inputs)]
       ELSE LET state == [i \in 1 .. WIDTH |->
                             IF i >= 2 /\ i - 1 <= Len(inputs) THEN inputs[i - 1] ELSE 0]
                run   == PoseidonGadget_permute(gadget,
                             PermutationRun(<<state[1], state[2], state[3]>>))
            IN [err |-> "Ok", value |-> <<run.state[1]>>]

(***************************************************************************)
(* crates/core/src/proof/mod.rs: the Groth16 wrapper.  A byte of a         *)
(* serialized proof is <<"byte", proof, k>> (byte k of that proof's        *)
(* encoding) or <<n>> (the byte n).  A compressed G1 point takes one       *)
(* coordinate, a compressed G2 point two; uncompressed points take twice   *)
(* that.                                                                   *)
(***************************************************************************)
G1_COMPRESSED_SIZE == CoordinateBytes
G2_COMPRESSED_SIZE == 2 * CoordinateBytes
G1_SIZE == 2 * CoordinateBytes
G2_SIZE == 4 * CoordinateBytes
\* SerializedProof::SIZE = 64 + 128 + 64
SerializedProof_SIZE == G1_SIZE + G2_SIZE + G1_SIZE

\* SerializedProof::from_bytes
SerializedProof_from_bytes(bytes) ==
    IF Len(bytes) # SerializedProof_SIZE
    THEN [err |-> "SerializationError", bytes |-> << >>]
    ELSE [err |-> "Ok", bytes |-> bytes]

\* Groth16::prove: the proof object for the circuit's assignment; it
\* verifies against the circuit's public inputs iff the assignment
\* satisfies the constraints
Groth16_prove(c) ==
    LET r == generate_constraints(c)
    IN IF r.err # "Ok"
       THEN [err |-> "GenerationFailed", proof |-> None]
       ELSE [err |-> "Ok",
             proof |-> [public_inputs |-> r.public_inputs, sound |-> r.satisfied]]

\* Proof::serialize_compressed: a (G1), b (G2), c (G1)
Proof_serialize_compressed(proof) ==
    [k \in 1 .. G1_COMPRESSED_SIZE + G2_COMPRESSED_SIZE + G1_COMPRESSED_SIZE |->
        <<"byte", proof, k>>]

\* Vec::resize(new_len, value)
Vec_resize(bytes, new_len, value) ==
    [k \in 1 .. new_len |-> IF k <= Len(bytes) THEN bytes[k] ELSE value]

\* TransferProofSystem::prove
TransferProofSystem_prove(c) ==
    LET g == Groth16_prove(c)
    IN IF g.err # "Ok"
       THEN [err |-> g.err, bytes |-> << >>]
       ELSE SerializedProof_from_bytes(
                Vec_resize(Proof_serialize_compressed(g.proof), SerializedProof_SIZE, <<0>>))

\* Proof::deserialize_compressed reads the three compressed points from the
\* front of the slice and leaves the rest unread.  Bytes that are not the
\* encoding of the proof they came from are rejected or decode to other
\* points: the set of the possible results.
Proof_deserialize_compressed(proof_bytes) ==
    LET n == G1_COMPRESSED_SIZE + G2_COMPRESSED_SIZE + G1_COMPRESSED_SIZE
    IN IF Len(proof_bytes) < n
       THEN {[err |-> "SerializationError", proof |-> None]}
       ELSE IF /\ \A k \in 1 .. n : /\ Len(proof_bytes[k]) = 3
                                    /\ proof_bytes[k][3] = k
               /\ \A k \in 1 .. n : proof_bytes[k][2] = proof_bytes[1][2]
            THEN {[err |-> "Ok", proof |-> proof_bytes[1][2]]}
            ELSE {[err |-> "SerializationError", proof |-> None],
                  [err |-> "Ok", proof |-> [public_inputs |-> None, sound |-> FALSE]]}

\* Groth16::verify_with_processed_vk
Groth16_verify_with_processed_vk(public_inputs, proof) ==
    proof.sound /\ proof.public_inputs = public_inputs

\* TransferProofSystem::verify: the set of the possible results
TransferProofSystem_verify(proof_bytes, public_inputs) ==
    { IF d.err # "Ok"
      THEN [err |-> "SerializationError", valid |-> FALSE]
      ELSE [err |-> "Ok",
            valid |-> Groth16_verify_with_processed_vk(public_inputs, d.proof)]
      : d \in Proof_deserialize_compressed(proof_bytes) }

\* slice::reverse
slice_reverse(bytes) ==
    [k \in 1 .. Len(bytes) |-> bytes[Len(bytes) + 1 - k]]

\* be[from..to].copy_from_slice(&le[from..to]); be[from..to].reverse()
\* (from, to as in the source: 0-based, to exclusive)
copy_reversed(be, le, from, to) ==
    [k \in 1 .. Len(be) |->
        IF from < k /\ k <= to THEN le[from + to + 1 - k] ELSE be[k]]

\* [0u8; n]
zeroed(n) == [k \in 1 .. n |-> 0]

\* g1_le_to_be
g1_le_to_be(le_bytes) ==
    IF Len(le_bytes) # G1_SIZE
    THEN [err |-> "SerializationError", be |-> << >>]
    ELSE LET be0 == zeroed(G1_SIZE)
             be1 == copy_reversed(be0, le_bytes, 0, CoordinateBytes)
             be2 == copy_reversed(be1, le_bytes, CoordinateBytes, 2 * CoordinateBytes)
         IN [err |-> "Ok", be |-> be2]

\* g2_le_to_be reversing the whole encoding at once
g2_le_to_be_whole(le_bytes) ==
    IF Len(le_bytes) # G2_SIZE
    THEN [err |-> "SerializationError", be |-> << >>]
    ELSE [err |-> "Ok", be |-> slice_reverse(le_bytes)]

\* g2_le_to_be
g2_le_to_be(le_bytes) ==
    IF Len(le_bytes) # G2_SIZE
    THEN [err |-> "SerializationError", be |-> << >>]
    ELSE LET be0 == zeroed(G2_SIZE)
             be1 == copy_reversed(be0, le_bytes, 0, CoordinateBytes)
             be2 == copy_reversed(be1, le_bytes, CoordinateBytes, 2 * CoordinateBytes)
             be3 == copy_reversed(be2, le_bytes, 2 * CoordinateBytes, 3 * CoordinateBytes)
             be4 == copy_reversed(be3, le_bytes, 3 * CoordinateBytes, 4 * CoordinateBytes)
         IN [err |-> "Ok", be |-> be4]

(***************************************************************************)
(* crates/program/src/groth16.rs: the on-chain converters.                 *)
(***************************************************************************)
\* le_to_be_32
le_to_be_32(le_bytes) == slice_reverse(le_bytes)

\* le_to_be_g1
le_to_be_g1(le_bytes) ==
    LET be0 == zeroed(G1_SIZE)
        be1 == copy_reversed(be0, le_bytes, 0, CoordinateBytes)
        be2 == copy_reversed(be1, le_bytes, CoordinateBytes, 2 * CoordinateBytes)
    IN be2

RECURSIVE le_to_be_g2_loop(_, _, _)
\* the loop `for i in 0..4` of le_to_be_g2
le_to_be_g2_loop(be_bytes, le_bytes, i) ==
    IF i >= 4 THEN be_bytes
    ELSE LET start == i * CoordinateBytes
         IN le_to_be_g2_loop(
                copy_reversed(be_bytes, le_bytes, start, start + CoordinateBytes),
                le_bytes, i + 1)

\* le_to_be_g2
le_to_be_g2(le_bytes) == le_to_be_g2_loop(zeroed(G2_SIZE), le_bytes, 0)

(***************************************************************************)
(* State.                                                                  *)
(***************************************************************************)
VARIABLES
    pool_exists,       \* the pool PDA has been created
    pool,              \* the PrivacyPool account
    nullifier_marker,  \* nullifier -> << >> or <<NullifierMarker>>: the marker PDAs
    lamports,          \* SOL of depositor, vault and recipients
    tokens,            \* SPL tokens of depositor, vault and recipients
    slot,              \* Clock::get().slot
    tree,              \* the client's PoseidonMerkleTree
    appended,          \* history: [commitment, leaf_index, root] per successful append
    spends,            \* history: nullifier -> number of successful spends
    shielded,          \* history: asset -> sum of the amounts shielded
    unshielded,        \* history: asset -> sum of the amounts unshielded
    notes,             \* the prover's notes, one per leaf of its tree
    poseidon_run,      \* << >> or <<the last hash2 input with its native and gadget runs>>
    hash_run,          \* << >> or <<the last hash input list with its native and gadget results>>
    circuit,           \* the TransferCircuit the prover has built
    proof_run,         \* << >> or <<the last proof: its bytes, the byte changed, the verdict>>
    endian_run,        \* << >> or <<the last encoding converted, with both converters' results>>
    cs                 \* the constraint system after synthesis, or << >>

vars == << pool_exists, pool, nullifier_marker, lamports, tokens, slot, tree,
           appended, spends, shielded, unshielded, notes, circuit, cs,
           poseidon_run, hash_run, proof_run, endian_run >>

Holders == {"depositor", "vault"} \cup Recipients

Init ==
    /\ pool_exists = FALSE
    /\ pool = PoolZeroed
    /\ nullifier_marker = [nf \in Nullifiers |-> << >>]
    /\ lamports = [h \in Holders |-> IF h = "depositor" THEN DepositorFunds ELSE 0]
    /\ tokens = [h \in Holders |-> IF h = "depositor" THEN DepositorTokens ELSE 0]
    /\ slot = 0
    /\ tree = PoseidonMerkleTree_new
    /\ appended = << >>
    /\ spends = [nf \in Nullifiers |-> 0]
    /\ shielded = [a \in {"sol", "token"} |-> 0]
    /\ unshielded = [a \in {"sol", "token"} |-> 0]
    /\ notes = << >>
    /\ circuit = TransferCircuit_default
    /\ cs = << >>
    /\ poseidon_run = << >>
    /\ hash_run = << >>
    /\ proof_run = << >>
    /\ endian_run = << >>

(***************************************************************************)
(* crates/program/src/lib.rs: account constraints, checked before the      *)
(* handler runs.                                                           *)
(***************************************************************************)
\* variant: init that does not look at whether the account exists
init_constraint_unchecked(exists) == "Ok"

\* #[account(init, ...)]: creating an account that exists fails
init_constraint(exists) == IF exists THEN "AccountAlreadyInUse" ELSE "Ok"

\* #[account(mut, seeds = [b"privacy_pool"], bump = pool.bump)]
pool_constraint(exists) == IF exists THEN "Ok" ELSE "AccountNotInitialized"

\* variant: only the pool is checked
spend_constraints_pool_only(exists, markers, nullifier) == pool_constraint(exists)

\* Transfer, UnshieldSol and Unshield: the pool, then the marker of (pool, nf)
spend_constraints(exists, markers, nullifier) ==
    IF pool_constraint(exists) # "Ok" THEN pool_constraint(exists)
    ELSE init_constraint(markers[nullifier] # << >>)

(***************************************************************************)
(* An instruction is one atomic transaction: the account constraints, the  *)
(* handler, and the commit of what the handler wrote if it returned Ok; a  *)
(* failed instruction leaves every account as it was.  X_ix is the         *)
(* instruction X as a function of the accounts and its data:               *)
(* [err, pool_exists, pool, markers, balances, leaf_index].                *)
(***************************************************************************)
Outcome(err, exists, p, markers, balances, leaf_index) ==
    [ err |-> err, pool_exists |-> exists, pool |-> p, markers |-> markers,
      balances |-> balances, leaf_index |-> leaf_index ]

initialize_ix ==
    LET c == init_constraint(pool_exists)
        r == process_initialize(pool, "authority")
    IN IF c # "Ok" THEN Outcome(c, pool_exists, pool, nullifier_marker, lamports, 0)
       ELSE IF r.err # "Ok"
       THEN Outcome(r.err, pool_exists, pool, nullifier_marker, lamports, 0)
       ELSE Outcome("Ok", TRUE, r.pool, nullifier_marker, lamports, 0)

shield_sol_ix(commitment, amount) ==
    LET c == pool_constraint(pool_exists)
        r == process_shield_sol(pool, lamports, commitment, amount)
    IN IF c # "Ok" THEN Outcome(c, pool_exists, pool, nullifier_marker, lamports, 0)
       ELSE IF r.err # "Ok"
       THEN Outcome(r.err, pool_exists, pool, nullifier_marker, lamports, 0)
       ELSE Outcome("Ok", pool_exists, r.pool, nullifier_marker, r.balances,
                    r.leaf_index)

shield_ix(commitment, amount) ==
    LET c == pool_constraint(pool_exists)
        r == process_shield(pool, tokens, commitment, amount)
    IN IF c # "Ok" THEN Outcome(c, pool_exists, pool, nullifier_marker, tokens, 0)
       ELSE IF r.err # "Ok"
       THEN Outcome(r.err, pool_exists, pool, nullifier_marker, tokens, 0)
       ELSE Outcome("Ok", pool_exists, r.pool, nullifier_marker, r.balances,
                    r.leaf_index)

transfer_ix(nullifier, new_commitment, proof) ==
    LET c == spend_constraints(pool_exists, nullifier_marker, nullifier)
        r == process_transfer(pool, nullifier, new_commitment, proof, slot)
    IN IF c # "Ok" THEN Outcome(c, pool_exists, pool, nullifier_marker, lamports, 0)
       ELSE IF r.err # "Ok"
       THEN Outcome(r.err, pool_exists, pool, nullifier_marker, lamports, 0)
       ELSE Outcome("Ok", pool_exists, r.pool,
                    [nullifier_marker EXCEPT ![nullifier] = r.marker],
                    lamports, r.leaf_index)

\* variant: what the handler wrote is kept whatever it returned
unshield_sol_ix_no_rollback(nullifier, amount, recipient, proof) ==
    LET c == spend_constraints(pool_exists, nullifier_marker, nullifier)
        r == process_unshield_sol(pool, lamports, recipient, nullifier, amount,
                                  proof, slot)
    IN IF c # "Ok" THEN Outcome(c, pool_exists, pool, nullifier_marker, lamports, 0)
       ELSE Outcome(r.err, pool_exists, r.pool,
                    IF r.marker = << >> THEN nullifier_marker
                    ELSE [nullifier_marker EXCEPT ![nullifier] = r.marker],
                    r.balances, 0)

unshield_sol_ix(nullifier, amount, recipient, proof) ==
    LET c == spend_constraints(pool_exists, nullifier_marker, nullifier)
        r == process_unshield_sol(pool, lamports, recipient, nullifier, amount,
                                  proof, slot)
    IN IF c # "Ok" THEN Outcome(c, pool_exists, pool, nullifier_marker, lamports, 0)
       ELSE IF r.err # "Ok"
       THEN Outcome(r.err, pool_exists, pool, nullifier_marker, lamports, 0)
       ELSE Outcome("Ok", pool_exists, r.pool,
                    [nullifier_marker EXCEPT ![nullifier] = r.marker],
                    r.balances, 0)

unshield_ix(nullifier, amount, recipient, proof) ==
    LET c == spend_constraints(pool_exists, nullifier_marker, nullifier)
        r == process_unshield(pool, tokens, recipient, nullifier, amount,
                              proof, slot)
    IN IF c # "Ok" THEN Outcome(c, pool_exists, pool, nullifier_marker, tokens, 0)
       ELSE IF r.err # "Ok"
       THEN Outcome(r.err, pool_exists, pool, nullifier_marker, tokens, 0)
       ELSE Outcome("Ok", pool_exists, r.pool,
                    [nullifier_marker EXCEPT ![nullifier] = r.marker],
                    r.balances, 0)

(***************************************************************************)
(* The #[error_code] enums of crates/program/src and the number under      *)
(* which an error reaches the caller: the host framework numbers the       *)
(* variants of each such enum from ERROR_CODE_OFFSET in declaration        *)
(* order, every enum starting again at the offset.                         *)
(***************************************************************************)
NyxError ==
    <<"InvalidAmount", "InvalidProof", "NullifierSpent", "InvalidCommitment",
      "PoolFull", "ProofVerificationFailed">>
TokenError == <<"InsufficientFunds", "InvalidTokenAccount", "MintMismatch">>
VerificationError == <<"InvalidProofFormat", "VerificationFailed", "InvalidPublicKey">>

ERROR_CODE_OFFSET == 6000

\* the position of a variant in its enum, from 0
discriminant(enum, variant) ==
    (CHOOSE i \in 1 .. Len(enum) : enum[i] = variant) - 1

\* the program error number of an instruction's error: the errors of the
\* handlers are NyxError (processor.rs, state.rs), TokenError (the vault
\* check) and VerificationError (verification.rs); a failed `init` is the
\* System Program's AccountAlreadyInUse (0), a missing pool the framework's
\* AccountNotInitialized (3012), a CPI transfer the source cannot pay the
\* called program's error 1
error_code(err) ==
    IF \E i \in 1 .. Len(NyxError) : NyxError[i] = err
    THEN ERROR_CODE_OFFSET + discriminant(NyxError, err)
    ELSE IF \E i \in 1 .. Len(TokenError) : TokenError[i] = err
    THEN ERROR_CODE_OFFSET + discriminant(TokenError, err)
    ELSE IF \E i \in 1 .. Len(VerificationError) : VerificationError[i] = err
    THEN ERROR_CODE_OFFSET + discriminant(VerificationError, err)
    ELSE IF err = "AccountAlreadyInUse" THEN 0
    ELSE IF err = "AccountNotInitialized" THEN 3012
    ELSE IF err \in {"InsufficientLamports", "SplInsufficientFunds"} THEN 1
    ELSE -1

(***************************************************************************)
(* Inputs.                                                                 *)
(***************************************************************************)
\* the roots a submitted proof was generated for: the root of the empty tree,
\* the pool's current root, and one the pool never had
ProofRoots == {get_zero_hash(TREE_DEPTH), current_root(pool), BogusRoot}

\* the proofs submitted: well-formed ones of both kinds, generated for a root,
\* the nullifier <<11>> and the commitment <<1>>; a signature proof with a
\* zero signature, one with a zero public key, and two of other lengths
ProofInputs ==
    {Proof(len, TRUE, TRUE, r, <<11>>, <<1>>) :
        len \in {MVP_PROOF_SIZE, PROOF_SIZE}, r \in ProofRoots}
    \cup {Proof(MVP_PROOF_SIZE, FALSE, TRUE, BogusRoot, <<11>>, <<1>>),
          Proof(MVP_PROOF_SIZE, TRUE, FALSE, BogusRoot, <<11>>, <<1>>),
          Proof(64, TRUE, TRUE, BogusRoot, <<11>>, <<1>>),
          Proof(100, TRUE, TRUE, BogusRoot, <<11>>, <<1>>)}

\* proofs of lengths at, next to and away from the two sizes
OddLengthProofs ==
    {Proof(len, TRUE, TRUE, current_root(pool), <<11>>, <<1>>) :
        len \in {0, 64, 95, 97, 100, 255, 257, 300}}

(***************************************************************************)
(* Actions: the instructions as the host runs them, one at a time.         *)
(***************************************************************************)
Initialize ==
    LET o == initialize_ix
    IN /\ pool_exists' = o.pool_exists
       /\ pool' = o.pool
       /\ UNCHANGED <<notes, circuit, cs, poseidon_run, hash_run, proof_run, endian_run>>
       /\ UNCHANGED <<nullifier_marker, lamports, tokens, slot, tree, appended,
                      spends, shielded, unshielded>>

ShieldSol(commitment, amount) ==
    /\ commitment_count(pool) < MaxLeaves
    /\ LET o == shield_sol_ix(commitment, amount)
       IN /\ pool' = o.pool
          /\ lamports' = o.balances
          /\ IF o.err = "Ok"
             THEN /\ appended' = Append(appended,
                        [ commitment |-> commitment, leaf_index |-> o.leaf_index,
                          root |-> current_root(o.pool) ])
                  /\ shielded' = [shielded EXCEPT !["sol"] = @ + amount]
             ELSE UNCHANGED <<appended, shielded>>
    /\ UNCHANGED <<notes, circuit, cs, poseidon_run, hash_run, proof_run, endian_run>>
    /\ UNCHANGED <<pool_exists, nullifier_marker, tokens, slot, tree, spends,
                   unshielded>>

Shield(commitment, amount) ==
    /\ commitment_count(pool) < MaxLeaves
    /\ LET o == shield_ix(commitment, amount)
       IN /\ pool' = o.pool
          /\ tokens' = o.balances
          /\ IF o.err = "Ok"
             THEN /\ appended' = Append(appended,
                        [ commitment |-> commitment, leaf_index |-> o.leaf_index,
                          root |-> current_root(o.pool) ])
                  /\ shielded' = [shielded EXCEPT !["token"] = @ + amount]
             ELSE UNCHANGED <<appended, shielded>>
    /\ UNCHANGED <<notes, circuit, cs, poseidon_run, hash_run, proof_run, endian_run>>
    /\ UNCHANGED <<pool_exists, nullifier_marker, lamports, slot, tree, spends,
                   unshielded>>

Transfer(nullifier, new_commitment, proof) ==
    /\ commitment_count(pool) < MaxLeaves
    /\ LET o == transfer_ix(nullifier, new_commitment, proof)
       IN /\ pool' = o.pool
          /\ nullifier_marker' = o.markers
          /\ IF o.err = "Ok"
             THEN /\ appended' = Append(appended,
                        [ commitment |-> new_commitment, leaf_index |-> o.leaf_index,
                          root |-> current_root(o.pool) ])
                  /\ spends' = [spends EXCEPT ![nullifier] = @ + 1]
             ELSE UNCHANGED <<appended, spends>>
    /\ UNCHANGED <<notes, circuit, cs, poseidon_run, hash_run, proof_run, endian_run>>
    /\ UNCHANGED <<pool_exists, lamports, tokens, slot, tree, shielded, unshielded>>

UnshieldSol(nullifier, amount, recipient, proof) ==
    LET o == unshield_sol_ix(nullifier, amount, recipient, proof)
    IN /\ pool' = o.pool
       /\ nullifier_marker' = o.markers
       /\ lamports' = o.balances
       /\ IF o.err = "Ok"
          THEN /\ spends' = [spends EXCEPT ![nullifier] = @ + 1]
               /\ unshielded' = [unshielded EXCEPT !["sol"] = @ + amount]
          ELSE UNCHANGED <<spends, unshielded>>
       /\ UNCHANGED <<notes, circuit, cs, poseidon_run, hash_run, proof_run, endian_run>>
       /\ UNCHANGED <<pool_exists, tokens, slot, tree, appended, shielded>>

Unshield(nullifier, amount, recipient, proof) ==
    LET o == unshield_ix(nullifier, amount, recipient, proof)
    IN /\ pool' = o.pool
       /\ nullifier_marker' = o.markers
       /\ tokens' = o.balances
       /\ IF o.err = "Ok"
          THEN /\ spends' = [spends EXCEPT ![nullifier] = @ + 1]
               /\ unshielded' = [unshielded EXCEPT !["token"] = @ + amount]
          ELSE UNCHANGED <<spends, unshielded>>
       /\ UNCHANGED <<notes, circuit, cs, poseidon_run, hash_run, proof_run, endian_run>>
       /\ UNCHANGED <<pool_exists, lamports, slot, tree, appended, shielded>>

\* the host's clock moves on between transactions
AdvanceSlot ==
    /\ slot < MaxSlot
    /\ slot' = slot + 1
    /\ UNCHANGED <<notes, circuit, cs, poseidon_run, hash_run, proof_run, endian_run>>
    /\ UNCHANGED <<pool_exists, pool, nullifier_marker, lamports, tokens, tree,
                   appended, spends, shielded, unshielded>>

\* the client replays the next appended commitment into its own tree
ClientInsert ==
    /\ tree.next_index < Len(appended)
    /\ LET r == PoseidonMerkleTree_insert(tree, appended[tree.next_index + 1].commitment)
       IN tree' = r.tree
    /\ UNCHANGED <<notes, circuit, cs, poseidon_run, hash_run, proof_run, endian_run>>
    /\ UNCHANGED <<pool_exists, pool, nullifier_marker, lamports, tokens, slot,
                   appended, spends, shielded, unshielded>>

(***************************************************************************)
(* The prover: builds notes, a TransferCircuit for one of them, and runs   *)
(* the constraint synthesiser, as the tests of transfer_circuit.rs do.     *)
(***************************************************************************)
\* the nullifier as the circuit's tests compute it
test_nullifier(spending_key, leaf_index) ==
    LET nullifier_domain  == Fr_from_le_bytes_mod_order("NYX_NULLIFIER")
        index_fr          == Fr_from(leaf_index)
        index_with_domain == poseidon_hash2(index_fr, nullifier_domain)
    IN poseidon_hash2(spending_key, index_with_domain)

\* a note is committed and inserted into the prover's tree
InsertNote(secret, amount, blinding) ==
    /\ proof_run = << >>
    /\ tree.next_index < MaxNotes
    /\ tree.next_index = Len(notes)
    /\ LET spending_key     == SpendingKey_from_secret(secret)
           input_commitment == compute_commitment(spending_key, amount, blinding,
                                                  NativeAsset)
           r                == PoseidonMerkleTree_insert(tree, input_commitment)
       IN /\ r.err = "Ok"
          /\ tree' = r.tree
          /\ notes' = Append(notes, [ secret |-> secret, amount |-> amount,
                                      blinding |-> blinding, asset_id |-> NativeAsset ])
    /\ UNCHANGED <<circuit, cs, poseidon_run, hash_run, proof_run, endian_run>>
    /\ UNCHANGED <<pool_exists, pool, nullifier_marker, lamports, tokens, slot,
                   appended, spends, shielded, unshielded>>

\* the circuit for spending note leaf_index is built; the nullifier is the
\* one the tests compute or the one Nullifier::from_secret returns
BuildCircuit(leaf_index, output_blinding, native_nullifier) ==
    /\ proof_run = << >>
    /\ leaf_index < Len(notes)
    /\ LET note           == notes[leaf_index + 1]
           spending_key   == SpendingKey_from_secret(note.secret)
           proof          == generate_proof(tree, leaf_index)
           nullifier      == IF native_nullifier
                             THEN Nullifier_from_secret(note.secret, leaf_index)
                             ELSE test_nullifier(spending_key, leaf_index)
           new_commitment == compute_commitment(spending_key, note.amount,
                                                output_blinding, note.asset_id)
       IN circuit' = TransferCircuit_new(
                        tree.current_root, nullifier, new_commitment,
                        Fr_from_le_bytes_mod_order(note.secret), note.amount,
                        note.blinding, note.asset_id, leaf_index,
                        proof.siblings, proof.indices, output_blinding)
    /\ cs' = << >>
    /\ UNCHANGED <<tree, notes, poseidon_run, hash_run, proof_run, endian_run>>
    /\ UNCHANGED <<pool_exists, pool, nullifier_marker, lamports, tokens, slot,
                   appended, spends, shielded, unshielded>>

\* the nullifier of the built circuit is replaced by an unrelated element
ReplaceNullifier ==
    /\ circuit # TransferCircuit_default
    /\ circuit' = [circuit EXCEPT !.nullifier = UnrelatedFr]
    /\ cs' = << >>
    /\ UNCHANGED <<tree, notes, poseidon_run, hash_run, proof_run, endian_run>>
    /\ UNCHANGED <<pool_exists, pool, nullifier_marker, lamports, tokens, slot,
                   appended, spends, shielded, unshielded>>

\* siblings[0] of the built circuit's path is replaced by an unrelated element
ReplaceSibling ==
    /\ circuit # TransferCircuit_default
    /\ circuit' = [circuit EXCEPT !.merkle_path[1] = UnrelatedFr]
    /\ cs' = << >>
    /\ UNCHANGED <<tree, notes, poseidon_run, hash_run, proof_run, endian_run>>
    /\ UNCHANGED <<pool_exists, pool, nullifier_marker, lamports, tokens, slot,
                   appended, spends, shielded, unshielded>>

\* circuit.generate_constraints(cs)
Synthesize ==
    /\ cs = << >>
    /\ cs' = <<generate_constraints(circuit)>>
    /\ UNCHANGED <<tree, notes, circuit, poseidon_run, hash_run, proof_run, endian_run>>
    /\ UNCHANGED <<pool_exists, pool, nullifier_marker, lamports, tokens, slot,
                   appended, spends, shielded, unshielded>>

(***************************************************************************)
(* The hash computed twice: natively, then by the gadget on the same       *)
(* inputs (test_poseidon_gadget_matches_native, for every a and b).        *)
(***************************************************************************)
NativeHash2(a, b) ==
    /\ poseidon_run = << >>
    /\ hash_run = << >>
    /\ poseidon_run' = <<[a |-> a, b |-> b, native |-> Poseidon_hash2(a, b),
                          gadget |-> None]>>
    /\ UNCHANGED <<pool_exists, pool, nullifier_marker, lamports, tokens, slot,
                   tree, appended, spends, shielded, unshielded, notes, circuit, cs,
                   hash_run, proof_run, endian_run>>

GadgetHash2 ==
    /\ poseidon_run # << >>
    /\ poseidon_run[1].gadget = None
    /\ poseidon_run' = <<[poseidon_run[1] EXCEPT
                            !.gadget = PoseidonGadget_hash2(poseidon_run[1].a,
                                                            poseidon_run[1].b)]>>
    /\ UNCHANGED <<pool_exists, pool, nullifier_marker, lamports, tokens, slot,
                   tree, appended, spends, shielded, unshielded, notes, circuit, cs,
                   hash_run, proof_run, endian_run>>

\* the lists hashed: every list over HashInputValues of length 0 .. MaxInputs
HashInputValues == {0, 1, 5}
HashInputs == UNION {[1 .. n -> HashInputValues] : n \in 0 .. MaxInputs}

\* poseidon_hash_fields(inputs)
NativeHash(inputs) ==
    /\ hash_run = << >>
    /\ poseidon_run = << >>
    /\ hash_run' = <<[inputs |-> inputs, native |-> Poseidon_hash(inputs),
                      gadget |-> None]>>
    /\ UNCHANGED <<pool_exists, pool, nullifier_marker, lamports, tokens, slot,
                   tree, appended, spends, shielded, unshielded, notes, circuit, cs,
                   poseidon_run, proof_run, endian_run>>

\* values a byte is overwritten with
ByteValues == {<<0>>, <<255>>}

\* the prover proves the circuit it has built
Prove ==
    /\ proof_run = << >>
    /\ LET r == TransferProofSystem_prove(circuit)
           g == generate_constraints(circuit)
       IN proof_run' = <<[ err |-> r.err, bytes |-> r.bytes,
                           public_inputs |-> g.public_inputs,
                           satisfied |-> g.satisfied,
                           changed |-> 0, verdict |-> None ]>>
    /\ UNCHANGED <<tree, notes, circuit, cs, poseidon_run, hash_run, endian_run>>
    /\ UNCHANGED <<pool_exists, pool, nullifier_marker, lamports, tokens, slot,
                   appended, spends, shielded, unshielded>>

\* byte k (1-based) of the serialized proof is overwritten with another value
ChangeByte(k, v) ==
    /\ proof_run # << >>
    /\ proof_run[1].err = "Ok"
    /\ proof_run[1].changed = 0
    /\ proof_run[1].verdict = None
    /\ k \in 1 .. Len(proof_run[1].bytes)
    /\ proof_run[1].bytes[k] # v
    /\ proof_run' = <<[proof_run[1] EXCEPT !.bytes = [@ EXCEPT ![k] = v],
                                           !.changed = k]>>
    /\ UNCHANGED <<tree, notes, circuit, cs, poseidon_run, hash_run, endian_run>>
    /\ UNCHANGED <<pool_exists, pool, nullifier_marker, lamports, tokens, slot,
                   appended, spends, shielded, unshielded>>

\* the serialized proof is verified, with the circuit's public inputs or
\* with others
VerifyProof(matching) ==
    /\ proof_run # << >>
    /\ proof_run[1].err = "Ok"
    /\ proof_run[1].verdict = None
    /\ LET public_inputs == IF matching THEN proof_run[1].public_inputs
                            ELSE <<UnrelatedFr, UnrelatedFr, UnrelatedFr>>
       IN \E out \in TransferProofSystem_verify(proof_run[1].bytes, public_inputs) :
             proof_run' = <<[proof_run[1] EXCEPT
                                !.verdict = <<[matching |-> matching, err |-> out.err,
                                               valid |-> out.valid]>>]>>
    /\ UNCHANGED <<tree, notes, circuit, cs, poseidon_run, hash_run, endian_run>>
    /\ UNCHANGED <<pool_exists, pool, nullifier_marker, lamports, tokens, slot,
                   appended, spends, shielded, unshielded>>

\* encodings handed to the converters: every byte string of the length of a
\* G1 or a G2 point, and one a byte short
EncodingBytes == {0, 1, 2}
G1Encodings == [1 .. G1_SIZE -> EncodingBytes] \cup [1 .. G1_SIZE - 1 -> {0, 1}]
G2Encodings == [1 .. G2_SIZE -> {1, 2}] \cup [1 .. G2_SIZE - 1 -> {1}]

\* a G1 encoding goes through the off-chain and the on-chain converter
ConvertG1(le_bytes) ==
    /\ endian_run = << >>
    /\ endian_run' = <<[ group |-> "G1", le |-> le_bytes,
                         off_chain |-> g1_le_to_be(le_bytes),
                         on_chain |-> IF Len(le_bytes) = G1_SIZE
                                      THEN le_to_be_g1(le_bytes) ELSE None ]>>
    /\ UNCHANGED <<tree, notes, circuit, cs, poseidon_run, hash_run, proof_run>>
    /\ UNCHANGED <<pool_exists, pool, nullifier_marker, lamports, tokens, slot,
                   appended, spends, shielded, unshielded>>

\* a G2 encoding goes through the off-chain and the on-chain converter
ConvertG2(le_bytes) ==
    /\ endian_run = << >>
    /\ endian_run' = <<[ group |-> "G2", le |-> le_bytes,
                         off_chain |-> g2_le_to_be(le_bytes),
                         on_chain |-> IF Len(le_bytes) = G2_SIZE
                                      THEN le_to_be_g2(le_bytes) ELSE None ]>>
    /\ UNCHANGED <<tree, notes, circuit, cs, poseidon_run, hash_run, proof_run>>
    /\ UNCHANGED <<pool_exists, pool, nullifier_marker, lamports, tokens, slot,
                   appended, spends, shielded, unshielded>>

\* the result of a converter is converted again
ConvertBack ==
    /\ endian_run # << >>
    /\ endian_run[1].off_chain.err = "Ok"
    /\ "twice" \notin DOMAIN endian_run[1]
    /\ LET r == endian_run[1]
       IN endian_run' = <<[ group |-> r.group, le |-> r.le,
                            off_chain |-> r.off_chain, on_chain |-> r.on_chain,
                            twice |-> IF r.group = "G1"
                                      THEN [ off_chain |-> g1_le_to_be(r.off_chain.be),
                                             on_chain |-> le_to_be_g1(r.on_chain) ]
                                      ELSE [ off_chain |-> g2_le_to_be(r.off_chain.be),
                                             on_chain |-> le_to_be_g2(r.on_chain) ] ]>>
    /\ UNCHANGED <<tree, notes, circuit, cs, poseidon_run, hash_run, proof_run>>
    /\ UNCHANGED <<pool_exists, pool, nullifier_marker, lamports, tokens, slot,
                   appended, spends, shielded, unshielded>>


\* poseidon_hash_gadget(cs, inputs) on the same inputs
GadgetHash ==
    /\ hash_run # << >>
    /\ hash_run[1].gadget = None
    /\ hash_run' = <<[hash_run[1] EXCEPT
                        !.gadget = PoseidonGadget_hash(hash_run[1].inputs)]>>
    /\ UNCHANGED <<pool_exists, pool, nullifier_marker, lamports, tokens, slot,
                   tree, appended, spends, shielded, unshielded, notes, circuit, cs,
                   poseidon_run, proof_run, endian_run>>

Next ==
    \/ Initialize
    \/ \E c \in Commitments, a \in Amounts : ShieldSol(c, a)
    \/ \E c \in Commitments, a \in Amounts : Shield(c, a)
    \/ \E nf \in Nullifiers, c \in Commitments, pf \in ProofInputs :
          Transfer(nf, c, pf)
    \/ \E nf \in Nullifiers, a \in Amounts, rc \in Recipients, pf \in ProofInputs :
          UnshieldSol(nf, a, rc, pf)
    \/ \E nf \in Nullifiers, a \in Amounts, rc \in Recipients, pf \in ProofInputs :
          Unshield(nf, a, rc, pf)
    \/ AdvanceSlot

Spec == Init /\ [][Next]_vars

\* the instructions that append, and the client that follows them
TreeNext ==
    \/ Initialize
    \/ \E c \in Commitments, a \in Amounts : ShieldSol(c, a)
    \/ \E c \in Commitments, a \in Amounts : Shield(c, a)
    \/ \E nf \in Nullifiers, c \in Commitments, pf \in ProofInputs :
          Transfer(nf, c, pf)
    \/ ClientInsert

TreeSpec == Init /\ [][TreeNext]_vars

\* the prover alone
CircuitNext ==
    \/ \E secret \in Secrets, amount \in NoteAmounts, blinding \in Blindings :
          InsertNote(secret, amount, blinding)
    \/ \E leaf_index \in 0 .. MaxNotes - 1, output_blinding \in Blindings,
          native_nullifier \in BOOLEAN :
          BuildCircuit(leaf_index, output_blinding, native_nullifier)
    \/ ReplaceNullifier
    \/ ReplaceSibling
    \/ Synthesize

CircuitSpec == Init /\ [][CircuitNext]_vars

\* the two implementations of hash2 and of hash alone
PoseidonNext ==
    \/ \E a \in Fr, b \in Fr : NativeHash2(a, b)
    \/ GadgetHash2
    \/ \E inputs \in HashInputs : NativeHash(inputs)
    \/ GadgetHash

PoseidonSpec == Init /\ [][PoseidonNext]_vars

\* the prover and the verifier of the Groth16 wrapper
ProofNext ==
    \/ \E secret \in Secrets, amount \in NoteAmounts, blinding \in Blindings :
          InsertNote(secret, amount, blinding)
    \/ \E leaf_index \in 0 .. MaxNotes - 1, output_blinding \in Blindings,
          native_nullifier \in BOOLEAN :
          BuildCircuit(leaf_index, output_blinding, native_nullifier)
    \/ Prove
    \/ \E k \in 1 .. SerializedProof_SIZE, v \in ByteValues : ChangeByte(k, v)
    \/ \E matching \in BOOLEAN : VerifyProof(matching)

ProofSpec == Init /\ [][ProofNext]_vars

\* the endianness converters of the two crates
EndianNext ==
    \/ \E le_bytes \in G1Encodings : ConvertG1(le_bytes)
    \/ \E le_bytes \in G2Encodings : ConvertG2(le_bytes)
    \/ ConvertBack

EndianSpec == Init /\ [][EndianNext]_vars

(***************************************************************************)
(* Properties.                                                             *)
(***************************************************************************)

\* C1: for every nullifier at most one spend (Transfer, UnshieldSol or
\* Unshield) ever succeeds; the first success creates the marker, and from
\* then on every spend carrying that nullifier fails because the marker
\* exists.
C1_OneSpendPerNullifier ==
    \A nf \in Nullifiers :
        /\ spends[nf] <= 1
        /\ spends[nf] = 1 =>
              /\ nullifier_marker[nf] # << >>
              /\ \A pf \in ProofInputs :
                    /\ \A c \in Commitments :
                          transfer_ix(nf, c, pf).err = "AccountAlreadyInUse"
                    /\ \A a \in Amounts, rc \in Recipients :
                          /\ unshield_sol_ix(nf, a, rc, pf).err = "AccountAlreadyInUse"
                          /\ unshield_ix(nf, a, rc, pf).err = "AccountAlreadyInUse"

\* a nullifier has been spent and another spend of it, which the handler
\* alone would accept, is submitted
C1_Witness ==
    \E nf \in Nullifiers, rc \in Recipients, pf \in ProofInputs :
        /\ spends[nf] = 1
        /\ nullifier_marker[nf] # << >>
        /\ lamports["vault"] >= 1
        /\ process_unshield_sol(pool, lamports, rc, nf, 1, pf, slot).err = "Ok"

\* C2: a Transfer submitted again, so that the marker of its nullifier
\* already exists, fails with the marker-collision error and leaves
\* next_index, the root, the filled subtrees, the root history and
\* nullifier_count as they were.
C2_ResubmittedTransferFails ==
    \A nf \in Nullifiers, c \in Commitments, pf \in ProofInputs :
        (pool_exists /\ nullifier_marker[nf] # << >>) =>
            LET o == transfer_ix(nf, c, pf)
            IN /\ o.err = "AccountAlreadyInUse"
               /\ o.pool.merkle_tree = pool.merkle_tree
               /\ o.pool.root_history = pool.root_history
               /\ o.pool.root_history_index = pool.root_history_index
               /\ o.pool.nullifier_count = pool.nullifier_count
               /\ o.markers = nullifier_marker

\* a Transfer has succeeded (it appended a commitment and counted its
\* nullifier) and the same Transfer, which the handler alone would accept
\* again, is submitted
C2_Witness ==
    \E nf \in Nullifiers, c \in Commitments, pf \in ProofInputs :
        /\ nullifier_marker[nf] # << >>
        /\ pool.nullifier_count = 1
        /\ Len(appended) = 1
        /\ appended[1].commitment = c
        /\ process_transfer(pool, nf, c, pf, slot).err = "Ok"

\* C3: a spend is accepted only if the root its proof was generated against
\* is the pool's current root or a non-zero entry of the root history.
C3_AcceptedOnlyForKnownRoot ==
    \A nf \in Nullifiers, pf \in ProofInputs :
        /\ \A c \in Commitments :
              transfer_ix(nf, c, pf).err = "Ok" => is_valid_root(pool, pf.root)
        /\ \A a \in Amounts, rc \in Recipients :
              /\ unshield_sol_ix(nf, a, rc, pf).err = "Ok" => is_valid_root(pool, pf.root)
              /\ unshield_ix(nf, a, rc, pf).err = "Ok" => is_valid_root(pool, pf.root)

\* C4: a proof accepted for one (root, nullifier, new commitment) is rejected
\* when it is submitted with another nullifier or another commitment, and a
\* proof accepted for an unshield is rejected with another recipient or
\* another amount.
C4_ProofBoundToPublicInputs ==
    \A pf \in ProofInputs, nf1 \in Nullifiers, nf2 \in Nullifiers :
        /\ \A c1 \in Commitments, c2 \in Commitments :
              ( /\ transfer_ix(nf1, c1, pf).err = "Ok"
                /\ <<nf1, c1>> # <<nf2, c2>> )
                    => transfer_ix(nf2, c2, pf).err # "Ok"
        /\ \A a1 \in Amounts, a2 \in Amounts, rc1 \in Recipients, rc2 \in Recipients :
              ( /\ unshield_sol_ix(nf1, a1, rc1, pf).err = "Ok"
                /\ <<nf1, a1, rc1>> # <<nf2, a2, rc2>> )
                    => unshield_sol_ix(nf2, a2, rc2, pf).err # "Ok"

\* C5: a proof generated against the root the tree had after k appends is
\* rejected once more than ROOT_HISTORY_SIZE further appends have taken
\* place (here k = 0, the root of the empty tree).
C5_EvictedRootRejected ==
    Len(appended) > ROOT_HISTORY_SIZE =>
        \A nf \in Nullifiers, pf \in ProofInputs :
            pf.root = get_zero_hash(TREE_DEPTH) =>
                /\ \A c \in Commitments : transfer_ix(nf, c, pf).err # "Ok"
                /\ \A a \in Amounts, rc \in Recipients :
                      /\ unshield_sol_ix(nf, a, rc, pf).err # "Ok"
                      /\ unshield_ix(nf, a, rc, pf).err # "Ok"

\* C6: the vault's balance is the sum of the amounts of the successful
\* shields minus the sum of the amounts of the successful unshields, and is
\* never below zero (for the SOL vault and for the token vault).
C6_VaultBalance ==
    /\ lamports["vault"] = shielded["sol"] - unshielded["sol"]
    /\ lamports["vault"] >= 0
    /\ tokens["vault"] = shielded["token"] - unshielded["token"]
    /\ tokens["vault"] >= 0

\* SOL has been shielded twice and part of it unshielded
C6_Witness ==
    /\ shielded["sol"] = 2
    /\ Len(appended) >= 2
    /\ unshielded["sol"] = 1
    /\ lamports["vault"] = 1

\* C7: an UnshieldSol that passes every earlier check and whose amount
\* exceeds the vault's balance fails with InsufficientFunds and leaves no
\* trace: no marker, nullifier_count, the vault and the recipient as they
\* were, and the nullifier still spendable.
C7_OverdrawLeavesNoTrace ==
    \A nf \in Nullifiers, a \in Amounts, rc \in Recipients, pf \in ProofInputs :
        ( /\ spend_constraints(pool_exists, nullifier_marker, nf) = "Ok"
          /\ a > 0
          /\ pf.len >= MvpProof_SIZE
          /\ verify_unshield_proof(pf, nf, rc, a, current_root(pool))
                = [err |-> "Ok", valid |-> TRUE]
          /\ a > lamports["vault"] )
            => LET o == unshield_sol_ix(nf, a, rc, pf)
               IN /\ o.err = "InsufficientFunds"
                  /\ o.markers[nf] = << >>
                  /\ o.markers = nullifier_marker
                  /\ o.pool.nullifier_count = pool.nullifier_count
                  /\ o.pool = pool
                  /\ o.balances["vault"] = lamports["vault"]
                  /\ o.balances[rc] = lamports[rc]
                  /\ spend_constraints(o.pool_exists, o.markers, nf) = "Ok"

\* the vault holds one lamport and an UnshieldSol of two, with an unspent
\* nullifier and a proof that verifies, is submitted
C7_Witness ==
    /\ lamports["vault"] = 1
    /\ \E nf \in Nullifiers, rc \in Recipients, pf \in ProofInputs :
          /\ nullifier_marker[nf] = << >>
          /\ process_unshield_sol(pool, lamports, rc, nf, 2, pf, slot).err
                = "InsufficientFunds"

\* C8: the marker of a nullifier exists exactly when one spend carrying it
\* has succeeded; a nullifier whose spends all failed has no marker.
C8_MarkerIffSpent ==
    \A nf \in Nullifiers :
        /\ (nullifier_marker[nf] # << >>) <=> (spends[nf] = 1)
        /\ spends[nf] = 0 => nullifier_marker[nf] = << >>

\* one nullifier is spent and has its marker; a spend of the other one would
\* fail after its handler wrote the marker
C8_Witness ==
    \E nf \in Nullifiers, other \in Nullifiers, rc \in Recipients, pf \in ProofInputs :
        /\ spends[nf] = 1
        /\ nullifier_marker[nf] # << >>
        /\ spends[other] = 0
        /\ nullifier_marker[other] = << >>
        /\ LET r == process_unshield_sol(pool, lamports, rc, other, 2, pf, slot)
           IN r.err = "InsufficientFunds" /\ r.marker # << >>

\* C9: a commitment enters the tree at most once: no value is at two leaf
\* positions.
C9_CommitmentAppendedOnce ==
    \A i \in 1 .. Len(appended), j \in 1 .. Len(appended) :
        i # j => appended[i].commitment # appended[j].commitment

\* C10: the root maintained by insert equals the root of the full tree of
\* depth TREE_DEPTH whose leaves are the appended values followed by the
\* zero value, for the pool's IncrementalMerkleTree and for the client's
\* PoseidonMerkleTree.
C10_IncrementalRootIsFullRoot ==
    /\ pool_exists =>
          /\ commitment_count(pool) = Len(appended)
          /\ current_root(pool)
                = FullTreeRoot([i \in 1 .. Len(appended) |-> appended[i].commitment])
    /\ tree.next_index = Len(tree.leaves)
    /\ tree.current_root = PoseidonFullTreeRoot(tree.leaves)

\* three leaves have been appended to both trees
C10_Witness ==
    /\ pool_exists
    /\ commitment_count(pool) = 3
    /\ tree.next_index = 3

\* C11: for every sequence of inserted leaves and every index i below their
\* number, the proof generate_proof(i) returns verifies leaf i against the
\* tree's current root.
C11_GeneratedProofVerifies ==
    \A i \in 0 .. tree.next_index - 1 :
        LET path == generate_proof(tree, i)
        IN /\ path.err = "Ok"
           /\ MerklePath_verify(path, tree.leaves[i + 1], tree.current_root)

\* three leaves are in the client's tree: leaf 1 is a right child at level 0
\* and leaf 2 a left child whose parent is a right child
C11_Witness ==
    /\ tree.next_index = 3
    /\ generate_proof(tree, 1).indices = <<TRUE, FALSE>>
    /\ generate_proof(tree, 2).indices = <<FALSE, TRUE>>

\* C12: the insert that brings next_index to the capacity MAX_LEAVES
\* succeeds and every insert into a full tree fails with TreeFull, which the
\* pool surfaces as PoolFull; the failed insert leaves next_index,
\* filled_subtrees, the current root and the root history as they were.  For
\* the pool's tree, the pool's instructions and the client's tree.
C12_FullTreeRejectsInsert ==
    /\ commitment_count(pool) <= MAX_LEAVES
    /\ tree.next_index <= MAX_LEAVES
    /\ \A c \in Commitments :
          /\ (pool_exists /\ commitment_count(pool) = MAX_LEAVES - 1) =>
                LET a == add_commitment(pool, c)
                IN a.err = "Ok" /\ commitment_count(a.pool) = MAX_LEAVES
          /\ (pool_exists /\ commitment_count(pool) = MAX_LEAVES) =>
                /\ IncrementalMerkleTree_insert(pool.merkle_tree, c)
                      = [err |-> "TreeFull", tree |-> pool.merkle_tree, leaf_index |-> 0]
                /\ LET a == add_commitment(pool, c)
                   IN /\ a.err = "PoolFull"
                      /\ a.pool.merkle_tree = pool.merkle_tree
                      /\ a.pool.root_history = pool.root_history
                      /\ a.pool.root_history_index = pool.root_history_index
                /\ \A amt \in Amounts \ {0} :
                      /\ shield_sol_ix(c, amt).err = "PoolFull"
                      /\ shield_sol_ix(c, amt).pool = pool
                      /\ shield_ix(c, amt).err = "PoolFull"
                      /\ shield_ix(c, amt).pool = pool
                /\ \A nf \in Nullifiers, pf \in ProofInputs :
                      ( /\ nullifier_marker[nf] = << >>
                        /\ pf.len >= MvpProof_SIZE
                        /\ verify_transfer_proof(pf, nf, c, current_root(pool))
                              = [err |-> "Ok", valid |-> TRUE] )
                        => /\ transfer_ix(nf, c, pf).err = "PoolFull"
                           /\ transfer_ix(nf, c, pf).pool = pool
                           /\ transfer_ix(nf, c, pf).markers = nullifier_marker
          /\ tree.next_index = MAX_LEAVES - 1 =>
                LET r == PoseidonMerkleTree_insert(tree, c)
                IN r.err = "Ok" /\ r.tree.next_index = MAX_LEAVES
          /\ tree.next_index = MAX_LEAVES =>
                PoseidonMerkleTree_insert(tree, c)
                    = [err |-> "TreeFull", tree |-> tree, leaf_index |-> 0]

\* both trees hold MAX_LEAVES leaves, and a Transfer that passes every
\* earlier check is submitted to the full pool
C12_Witness ==
    /\ pool_exists
    /\ commitment_count(pool) = MAX_LEAVES
    /\ tree.next_index = MAX_LEAVES
    /\ \E nf \in Nullifiers, c \in Commitments, pf \in ProofInputs :
          /\ nullifier_marker[nf] = << >>
          /\ process_transfer(pool, nf, c, pf, slot).err = "PoolFull"

\* C13: in whatever order the host runs the submitted Shield and Transfer
\* instructions, each successful append receives the leaf index equal to
\* the number of appends that succeeded before it: next_index advances by
\* exactly one per successful append, no two appends receive the same index,
\* and a failed instruction does not advance it.
C13_OneIndexPerAppend ==
    /\ pool_exists => commitment_count(pool) = Len(appended)
    /\ \A i \in 1 .. Len(appended) : appended[i].leaf_index = i - 1
    /\ \A i \in 1 .. Len(appended), j \in 1 .. Len(appended) :
          i # j => appended[i].leaf_index # appended[j].leaf_index
    /\ \A c \in Commitments :
          /\ \A amt \in Amounts :
                /\ LET o == shield_sol_ix(c, amt)
                   IN IF o.err = "Ok"
                      THEN /\ commitment_count(o.pool) = commitment_count(pool) + 1
                           /\ o.leaf_index = Len(appended)
                      ELSE commitment_count(o.pool) = commitment_count(pool)
                /\ LET o == shield_ix(c, amt)
                   IN IF o.err = "Ok"
                      THEN /\ commitment_count(o.pool) = commitment_count(pool) + 1
                           /\ o.leaf_index = Len(appended)
                      ELSE commitment_count(o.pool) = commitment_count(pool)
          /\ \A nf \in Nullifiers, pf \in ProofInputs :
                LET o == transfer_ix(nf, c, pf)
                IN IF o.err = "Ok"
                   THEN /\ commitment_count(o.pool) = commitment_count(pool) + 1
                        /\ o.leaf_index = Len(appended)
                   ELSE commitment_count(o.pool) = commitment_count(pool)

\* a ShieldSol, a Shield and a Transfer have each appended a leaf
C13_Witness ==
    /\ Len(appended) = 3
    /\ shielded["sol"] >= 1
    /\ shielded["token"] >= 1
    /\ pool.nullifier_count = 1
    /\ unshielded["sol"] + unshielded["token"] = 0

\* C14: the nullifier Nullifier::derive(SpendingKey::from_secret(s), i)
\* returns is the value constraint 4 of the transfer circuit enforces, so a
\* circuit built for a note of the prover's tree with its natively derived
\* nullifier is satisfied.
C14_NativeNullifierSatisfiesCircuit ==
    \A i \in 0 .. Len(notes) - 1 :
        ( /\ cs # << >>
          /\ circuit.leaf_index = <<i>>
          /\ circuit.sender_secret = Fr_from_le_bytes_mod_order(notes[i + 1].secret)
          /\ circuit.nullifier = Nullifier_derive(
                                    SpendingKey_from_secret(notes[i + 1].secret), i)
          /\ circuit.merkle_root = tree.current_root
          /\ circuit.merkle_path = generate_proof(tree, i).siblings )
            => cs[1].satisfied

\* C15: the transfer circuit's constraint system is satisfied when the
\* public inputs (root, nf, C_new) are the values derived from the witness,
\* and is not satisfied when nf is replaced by a different value or when
\* path.siblings[0] is replaced by a different value.
C15_CircuitSatisfiedIffDerived ==
    ( /\ cs # << >>
      /\ circuit.merkle_root = tree.current_root )
        => LET i    == circuit.leaf_index[1]
               note == notes[i + 1]
               sk   == SpendingKey_from_secret(note.secret)
               path == generate_proof(tree, i)
           IN /\ ( /\ circuit.nullifier = test_nullifier(sk, i)
                   /\ circuit.merkle_path = path.siblings
                   /\ circuit.merkle_indices = path.indices
                   /\ circuit.new_commitment =
                         compute_commitment(sk, note.amount, circuit.output_blinding,
                                            note.asset_id) )
                    => (cs[1].err = "Ok" /\ cs[1].satisfied)
              /\ circuit.nullifier # test_nullifier(sk, i) => ~cs[1].satisfied
              /\ circuit.merkle_path[1] # path.siblings[1] => ~cs[1].satisfied

\* the circuit built for the third of three notes, with the derived public
\* inputs, has been synthesised and is satisfied
C15_Witness ==
    /\ Len(notes) = 3
    /\ cs # << >>
    /\ circuit.leaf_index = <<2>>
    /\ circuit.merkle_root = tree.current_root
    /\ circuit.merkle_indices = <<FALSE, TRUE>>
    /\ cs[1].satisfied

\* C16: for all field elements a and b the hash2 gadget yields the same
\* field element as the native hash2: both start from [0, a, b], run 4
\* full, 57 partial and 4 full rounds, read the same 195 round constants
\* three per round without indexing past the table, and output state[0].
C16_GadgetMatchesNative ==
    (poseidon_run # << >> /\ poseidon_run[1].gadget # None)
        => LET r == poseidon_run[1]
               n == r.native
               g == r.gadget
               C16_Schedule ==
                   [k \in 1 .. 65 |-> IF k <= 4 \/ k > 61 THEN "full" ELSE "partial"]
           IN /\ g.state[1] = n.state[1]
              /\ n.initial = <<0, r.a, r.b>> /\ g.initial = <<0, r.a, r.b>>
              /\ ~n.panicked /\ ~g.panicked
              /\ n.rounds = C16_Schedule /\ g.rounds = C16_Schedule
              /\ n.constants_read = 195 /\ g.constants_read = 195
              /\ n.round_ctr = Len(get_round_constants)
              /\ g.round_ctr = Len(PoseidonGadget_new.round_constants)
              /\ PoseidonGadget_new.round_constants = get_round_constants
              /\ PoseidonGadget_new.mds_matrix = get_mds_matrix

\* both runs are done for a = 1, b = 2 and the output is not an input
C16_Witness ==
    /\ poseidon_run # << >>
    /\ poseidon_run[1].a = 1 /\ poseidon_run[1].b = 2
    /\ poseidon_run[1].gadget # None
    /\ poseidon_run[1].gadget.state # poseidon_run[1].gadget.initial
    /\ Len(poseidon_run[1].native.rounds) = 65

\* C17: the transfer circuit allocates exactly three public inputs in the
\* order [merkle_root, nullifier, new_commitment], and the on-chain verifier
\* builds its public-input array with the same three values in the same
\* order and with the same count NUM_PUBLIC_INPUTS = 3.
C17_PublicInputOrder ==
    (cs # << >> /\ cs[1].err = "Ok")
        => /\ cs[1].public_inputs =
                <<circuit.merkle_root, circuit.nullifier, circuit.new_commitment>>
           /\ cs[1].public_inputs =
                verifier_public_inputs(circuit.merkle_root, circuit.nullifier,
                                       circuit.new_commitment)
           /\ cs[1].public_inputs =
                TransferPublicInputs_to_verifier_inputs(
                    [merkle_root |-> circuit.merkle_root,
                     nullifier |-> circuit.nullifier,
                     new_commitment |-> circuit.new_commitment])
           /\ Len(cs[1].public_inputs) = TransferCircuit_NUM_PUBLIC_INPUTS
           /\ Len(verifier_public_inputs(circuit.merkle_root, circuit.nullifier,
                                         circuit.new_commitment)) = NUM_PUBLIC_INPUTS
           /\ TransferCircuit_NUM_PUBLIC_INPUTS = NUM_PUBLIC_INPUTS
           /\ NUM_PUBLIC_INPUTS = 3

\* a synthesised circuit whose three public inputs are pairwise different,
\* so that their order shows
C17_Witness ==
    /\ cs # << >>
    /\ cs[1].err = "Ok"
    /\ cs[1].satisfied
    /\ circuit.merkle_root # circuit.nullifier
    /\ circuit.nullifier # circuit.new_commitment
    /\ circuit.merkle_root # circuit.new_commitment

\* C18: the proof type of a spend is decided by length alone: 96 bytes go
\* to signature verification, 256 bytes to Groth16 verification, and a
\* proof of any other length makes the spend fail with an invalid-proof
\* error without creating a marker or changing the pool; the off-chain
\* validate_proof_size and the instruction-data validate accept exactly
\* the same two lengths.
C18_ProofTypeByLength ==
    \A pf \in ProofInputs \cup OddLengthProofs, nf \in Nullifiers :
        LET t  == transfer_ix(nf, <<1>>, pf)
            u  == unshield_sol_ix(nf, 1, "r1", pf)
            k  == unshield_ix(nf, 1, "r1", pf)
            vt == verify_transfer_proof(pf, nf, <<1>>, current_root(pool))
            vu == verify_unshield_proof(pf, nf, "r1", 1, current_root(pool))
            accounts_ok == spend_constraints(pool_exists, nullifier_marker, nf) = "Ok"
        IN /\ pf.len = 96 =>
                /\ ProofType_detect(pf) = "Signature"
                /\ vt = [err |-> "Ok", valid |-> verify_signature(
                            build_transfer_message(nf, <<1>>, current_root(pool)), pf)]
                /\ vu = [err |-> "Ok", valid |-> verify_signature(
                            build_unshield_message(nf, "r1", 1, current_root(pool)), pf)]
           /\ pf.len = 256 =>
                /\ ProofType_detect(pf) = "Groth16"
                /\ vt = verify_groth16_transfer(pf, current_root(pool), nf, <<1>>)
                /\ vu = verify_groth16_transfer(pf, current_root(pool), nf, ZERO32)
           /\ pf.len \notin {96, 256} =>
                /\ ProofType_detect(pf) = "None"
                /\ \A o \in {t, u, k} :
                      /\ o.err # "Ok"
                      /\ accounts_ok => o.err \in {"InvalidProof", "InvalidProofFormat"}
                      /\ o.markers = nullifier_marker
                      /\ o.pool = pool
                      /\ o.pool_exists = pool_exists
                /\ t.balances = lamports /\ u.balances = lamports
                /\ k.balances = tokens
           /\ validate_proof_size(pf) = "Ok" <=> pf.len \in {96, 256}
           /\ TransferData_validate(pf) = "Ok" <=> pf.len \in {96, 256}
           /\ UnshieldData_validate(1, pf) = "Ok" <=> pf.len \in {96, 256}
           /\ (proof_type(pf) # "None") <=> validate_proof_size(pf) = "Ok"

\* with commitments in the pool and an unspent nullifier, a 100-byte proof
\* is refused although a 96-byte one with the same bytes set is accepted
C18_Witness ==
    /\ pool_exists
    /\ commitment_count(pool) >= 1
    /\ lamports["vault"] >= 1
    /\ nullifier_marker[<<12>>] = << >>
    /\ transfer_ix(<<12>>, <<1>>, Proof(100, TRUE, TRUE, current_root(pool), <<11>>, <<1>>)).err
          = "InvalidProofFormat"
    /\ unshield_sol_ix(<<12>>, 1, "r1", Proof(64, TRUE, TRUE, current_root(pool), <<11>>, <<1>>)).err
          = "InvalidProof"
    /\ transfer_ix(<<12>>, <<1>>, Proof(96, TRUE, TRUE, current_root(pool), <<11>>, <<1>>)).err = "Ok"

\* C19: the six on-chain failure kinds (invalid proof, invalid root, marker
\* collision, insufficient vault balance, tree full, zero amount) each reach
\* the caller as a numeric error code that differs from the code of every
\* other kind.
C19_DistinctErrorCodes ==
    LET errs ==
            {shield_sol_ix(c, a).err : c \in Commitments, a \in Amounts}
            \cup {shield_ix(c, a).err : c \in Commitments, a \in Amounts}
            \cup {transfer_ix(nf, <<1>>, pf).err : nf \in Nullifiers, pf \in ProofInputs}
            \cup {unshield_sol_ix(nf, a, "r1", pf).err :
                     nf \in Nullifiers, a \in Amounts, pf \in ProofInputs}
            \cup {unshield_ix(nf, a, "r1", pf).err :
                     nf \in Nullifiers, a \in Amounts, pf \in ProofInputs}
        kind(err) ==
            CASE err \in {"InvalidProof", "InvalidProofFormat", "VerificationFailed"}
                    -> "invalid proof"
              [] err = "AccountAlreadyInUse" -> "marker collision"
              [] err \in {"InsufficientFunds", "SplInsufficientFunds"}
                    -> "insufficient vault balance"
              [] err = "PoolFull" -> "tree full"
              [] err = "InvalidAmount" -> "zero amount"
              [] OTHER -> "none of the six"
    IN \A e1 \in errs, e2 \in errs :
          ( /\ kind(e1) # "none of the six"
            /\ kind(e2) # "none of the six"
            /\ kind(e1) # kind(e2) )
              => error_code(e1) # error_code(e2)

\* C20: a successful Unshield creates the marker, increments
\* nullifier_count by one and moves exactly v from the vault to the
\* recipient, leaving the tree (next_index, filled_subtrees, current root)
\* and the root history unchanged; a successful Transfer creates the marker,
\* increments nullifier_count by one and appends C_new, leaving the vault
\* balance unchanged.
C20_SpendFrame ==
    [][ \A nf \in Nullifiers :
          spends'[nf] # spends[nf] =>
            /\ nullifier_marker[nf] = << >>
            /\ nullifier_marker'[nf] # << >>
            /\ nullifier_marker'[nf][1].nullifier = nf
            /\ \A other \in Nullifiers \ {nf} :
                  nullifier_marker'[other] = nullifier_marker[other]
            /\ pool'.nullifier_count = pool.nullifier_count + 1
            /\ IF Len(appended') = Len(appended)
               THEN \* Unshield of v lamports or of v tokens
                    LET v_sol   == unshielded'["sol"] - unshielded["sol"]
                        v_token == unshielded'["token"] - unshielded["token"]
                        moved(before, after, v) ==
                            /\ after["vault"] = before["vault"] - v
                            /\ after["depositor"] = before["depositor"]
                            /\ \E r \in Recipients :
                                  /\ after[r] = before[r] + v
                                  /\ \A q \in Recipients \ {r} : after[q] = before[q]
                    IN /\ v_sol + v_token > 0
                       /\ v_sol = 0 \/ v_token = 0
                       /\ moved(lamports, lamports', v_sol)
                       /\ moved(tokens, tokens', v_token)
                       /\ pool'.merkle_tree.next_index = pool.merkle_tree.next_index
                       /\ pool'.merkle_tree.filled_subtrees = pool.merkle_tree.filled_subtrees
                       /\ current_root(pool') = current_root(pool)
                       /\ pool'.root_history = pool.root_history
                       /\ pool'.root_history_index = pool.root_history_index
               ELSE \* Transfer appending C_new
                    LET e == appended'[Len(appended')]
                    IN /\ Len(appended') = Len(appended) + 1
                       /\ e.leaf_index = pool.merkle_tree.next_index
                       /\ pool'.merkle_tree =
                             IncrementalMerkleTree_insert(pool.merkle_tree, e.commitment).tree
                       /\ commitment_count(pool') = commitment_count(pool) + 1
                       /\ lamports' = lamports
                       /\ tokens' = tokens
      ]_vars

\* a Transfer and an Unshield of one lamport have both succeeded
C20_Witness ==
    /\ spends[<<11>>] = 1
    /\ spends[<<12>>] = 1
    /\ unshielded["sol"] = 1
    /\ lamports["vault"] = shielded["sol"] - 1
    /\ pool.nullifier_count = 2
    /\ Len(appended) >= 2
    /\ \E i \in 1 .. Len(appended) : appended[i].leaf_index = Len(appended) - 1

\* C21: the pool moves from Uninitialized to Initialized exactly once:
\* Shield, Transfer and Unshield are rejected before Initialize; Initialize
\* sets next_index, nullifier_count, total_fees_collected and
\* root_history_index to zero and every root-history slot to zero; a second
\* Initialize fails and leaves the pool unchanged.
C21_InitializedOnce ==
    /\ [] ( /\ ~pool_exists =>
                /\ pool = PoolZeroed
                /\ \A c \in Commitments, a \in Amounts :
                      /\ shield_sol_ix(c, a).err = "AccountNotInitialized"
                      /\ shield_ix(c, a).err = "AccountNotInitialized"
                /\ \A nf \in Nullifiers, pf \in ProofInputs :
                      /\ transfer_ix(nf, <<1>>, pf).err = "AccountNotInitialized"
                      /\ \A a \in Amounts, r \in Recipients :
                            /\ unshield_sol_ix(nf, a, r, pf).err = "AccountNotInitialized"
                            /\ unshield_ix(nf, a, r, pf).err = "AccountNotInitialized"
                /\ initialize_ix.err = "Ok"
            /\ pool_exists =>
                /\ initialize_ix.err = "AccountAlreadyInUse"
                /\ initialize_ix.pool = pool
                /\ initialize_ix.pool_exists
                /\ initialize_ix.markers = nullifier_marker )
    /\ [][ /\ pool_exists => pool_exists'
           /\ (~pool_exists /\ pool_exists') =>
                /\ pool'.merkle_tree.next_index = 0
                /\ pool'.nullifier_count = 0
                /\ pool'.total_fees_collected = 0
                /\ pool'.root_history_index = 0
                /\ Len(pool'.root_history) = ROOT_HISTORY_SIZE
                /\ \A i \in 1 .. ROOT_HISTORY_SIZE : pool'.root_history[i] = ZERO32
           /\ ~pool_exists' => pool' = pool
         ]_vars

\* an initialized pool that has taken appends and a spend: a second
\* Initialize would have something to reset
C21_Witness ==
    /\ pool_exists
    /\ commitment_count(pool) >= 2
    /\ pool.nullifier_count >= 1
    /\ pool.root_history_index # 0
    /\ initialize_ix.err = "AccountAlreadyInUse"

\* C22: a freshly created tree, off-chain (PoseidonMerkleTree::new) and
\* on-chain (Initialize), has next_index 0 and root Z[TREE_DEPTH], where
\* Z[0] is the field element 0 and Z[k] = Poseidon(Z[k-1], Z[k-1]).
C22_FreshTreeRootIsPoseidonZero ==
    LET RECURSIVE Z(_)
        Z(k) == IF k = 0 THEN Fr_from(0)
                ELSE poseidon_hash2(Z(k - 1), Z(k - 1))
    IN /\ PoseidonMerkleTree_new.next_index = 0
       /\ PoseidonMerkleTree_new.current_root = Z(TREE_DEPTH)
       /\ (pool_exists /\ appended = << >>) =>
             /\ pool.merkle_tree.next_index = 0
             /\ current_root(pool) = Z(TREE_DEPTH)

\* C23: for a valid proof (leaf, siblings, indices, root) produced by
\* generate_proof, replacing the leaf, any one sibling, or the root by a
\* different value makes verification return false, both in
\* MerklePath::verify and in the in-circuit Merkle-path gadget.
C23_TamperedProofFails ==
    \A i \in 0 .. tree.next_index - 1 :
        LET path   == generate_proof(tree, i)
            leaf   == tree.leaves[i + 1]
            root   == tree.current_root
            gadget == MerklePathGadget_new_witness(path.siblings, path.indices)
            \* replacement values: leaves, the empty leaf, inner nodes of this
            \* tree, the root, and a value that occurs nowhere in it
            others == Commitments \cup {ZERO32, <<999>>, root}
                        \cup {path.siblings[l] : l \in 1 .. TREE_DEPTH}
        IN /\ MerklePath_verify(path, leaf, root)
           /\ MerklePathGadget_verify(gadget, leaf, root)
           /\ \A w \in others :
                /\ w # leaf =>
                      /\ ~MerklePath_verify(path, w, root)
                      /\ ~MerklePathGadget_verify(gadget, w, root)
                /\ w # root =>
                      /\ ~MerklePath_verify(path, leaf, w)
                      /\ ~MerklePathGadget_verify(gadget, leaf, w)
                /\ \A l \in 1 .. TREE_DEPTH :
                      w # path.siblings[l] =>
                        LET bad == [path EXCEPT !.siblings[l] = w]
                            bad_gadget ==
                                MerklePathGadget_new_witness(bad.siblings, bad.indices)
                        IN /\ ~MerklePath_verify(bad, leaf, root)
                           /\ ~MerklePathGadget_verify(bad_gadget, leaf, root)

\* the client's tree holds three leaves, two of them equal, and the proof
\* of the third has a sibling that is an inner node
C23_Witness ==
    /\ tree.next_index = 3
    /\ tree.leaves[1] = tree.leaves[2]
    /\ generate_proof(tree, 2).err = "Ok"
    /\ generate_proof(tree, 2).siblings[2] = poseidon_hash2(tree.leaves[1], tree.leaves[2])
    /\ MerklePath_verify(generate_proof(tree, 2), tree.leaves[3], tree.current_root)

\* C24: once a nullifier marker has been created, no later instruction of
\* any kind changes its pool, nullifier or spent_at fields or removes it.
C24_MarkerWriteOnce ==
    [][ \A nf \in Nullifiers :
          nullifier_marker[nf] # << >> =>
            /\ nullifier_marker'[nf] # << >>
            /\ nullifier_marker'[nf][1].pool = nullifier_marker[nf][1].pool
            /\ nullifier_marker'[nf][1].nullifier = nullifier_marker[nf][1].nullifier
            /\ nullifier_marker'[nf][1].spent_at = nullifier_marker[nf][1].spent_at
      ]_vars

\* both markers exist, created in different slots, and the clock has moved
\* past the first
C24_Witness ==
    /\ nullifier_marker[<<11>>] # << >>
    /\ nullifier_marker[<<12>>] # << >>
    /\ nullifier_marker[<<11>>][1].spent_at = 0
    /\ nullifier_marker[<<12>>][1].spent_at = 1
    /\ slot = 1

\* C25: the native variable-input hash(inputs) fails with EmptyInput on an
\* empty list and returns a field element for every non-empty list: up to
\* 2 inputs are absorbed directly and longer inputs by a rate-2 sponge,
\* giving the same result as the in-circuit gadget hash on the same inputs.
C25_NativeHashMatchesGadget ==
    (hash_run # << >> /\ hash_run[1].gadget # None)
        => LET r == hash_run[1]
           IN /\ Len(r.inputs) = 0 => r.native.err = "EmptyInput"
              /\ Len(r.inputs) > 0 =>
                    /\ r.native.err = "Ok"
                    /\ r.native.value # None
                    /\ r.native.value[1] \in Fr
                    /\ r.gadget.err = "Ok"
                    /\ r.native.value = r.gadget.value

\* C26: a proof that prove made on a correct witness verifies with the
\* matching public inputs, and once any single byte of the serialized proof
\* (SerializedProof::SIZE bytes) has been changed verify returns false or
\* an error, never true.
C26_ChangedProofByteRejected ==
    (/\ proof_run # << >>
     /\ proof_run[1].err = "Ok"
     /\ proof_run[1].satisfied
     /\ proof_run[1].verdict # None
     /\ proof_run[1].verdict[1].matching)
        => LET v == proof_run[1].verdict[1]
           IN /\ proof_run[1].changed = 0 => (v.err = "Ok" /\ v.valid)
              /\ proof_run[1].changed # 0 => ~(v.err = "Ok" /\ v.valid)

\* C27: for an encoding of the length of its group (two coordinates for G1,
\* four for G2) both converters succeed with the same bytes, each
\* coordinate-sized chunk of the result is the reversal of the same chunk of
\* the input and the length is unchanged, and converting the result again
\* gives back the input.
C27_EndianBridge ==
    (endian_run # << >> /\
     Len(endian_run[1].le) = (IF endian_run[1].group = "G1" THEN G1_SIZE ELSE G2_SIZE))
        => LET r      == endian_run[1]
               chunks == IF r.group = "G1" THEN 2 ELSE 4
           IN /\ r.off_chain.err = "Ok"
              /\ r.off_chain.be = r.on_chain
              /\ Len(r.on_chain) = Len(r.le)
              /\ \A c \in 0 .. chunks - 1 : \A j \in 1 .. CoordinateBytes :
                    r.on_chain[c * CoordinateBytes + j]
                        = r.le[c * CoordinateBytes + CoordinateBytes + 1 - j]
              /\ "twice" \in DOMAIN r =>
                    /\ r.twice.off_chain.err = "Ok"
                    /\ r.twice.off_chain.be = r.le
                    /\ r.twice.on_chain = r.le

\* a G2 encoding that the converters change and whose whole-string reversal
\* differs from the chunk-wise one has been converted twice
C27_Witness ==
    /\ endian_run # << >>
    /\ endian_run[1].group = "G2"
    /\ Len(endian_run[1].le) = G2_SIZE
    /\ "twice" \in DOMAIN endian_run[1]
    /\ endian_run[1].on_chain # endian_run[1].le
    /\ endian_run[1].on_chain # slice_reverse(endian_run[1].le)

\* C28: once the client's PoseidonMerkleTree holds the same sequence of
\* commitments as the pool has appended, the pool's current root is the
\* client tree's root.
C28_PoolRootIsClientRoot ==
    (/\ pool_exists
     /\ commitment_count(pool) = Len(appended)
     /\ tree.next_index = Len(appended)
     /\ \A i \in 1 .. Len(appended) : tree.leaves[i] = appended[i].commitment)
        => current_root(pool) = tree.current_root

\* C29: root_history_index stays in 0 .. ROOT_HISTORY_SIZE - 1, and after n
\* successful appends the nonzero slots of the root history are exactly the
\* min(n, ROOT_HISTORY_SIZE) roots that were current just before each of the
\* last appends, every other slot being zero; is_valid_root(r) is true
\* exactly when r is the current root or one of those roots.
C29_RootHistoryHoldsRecentRoots ==
    pool_exists =>
        LET n            == Len(appended)
            superseded(i) == IF i = 1 THEN IncrementalMerkleTree_new.current_root
                             ELSE appended[i - 1].root
            kept         == IF n < ROOT_HISTORY_SIZE THEN n ELSE ROOT_HISTORY_SIZE
            recent       == {superseded(i) : i \in n - kept + 1 .. n}
            slots        == 1 .. ROOT_HISTORY_SIZE
            roots        == {superseded(i) : i \in 1 .. n}
                                \cup {appended[i].root : i \in 1 .. n}
                                \cup {current_root(pool), ZERO32, ZERO_VALUE, BogusRoot}
        IN /\ pool.root_history_index \in 0 .. ROOT_HISTORY_SIZE - 1
           /\ Cardinality(recent) = kept
           /\ {pool.root_history[k] : k \in slots} \ {ZERO32} = recent
           /\ Cardinality({k \in slots : pool.root_history[k] # ZERO32}) = kept
           /\ \A r \in roots :
                 is_valid_root(pool, r) <=> (r = current_root(pool) \/ r \in recent)

\* the history has wrapped around: three appends into ROOT_HISTORY_SIZE = 2
\* slots, the first superseded root has been overwritten and is no longer
\* valid
C29_Witness ==
    /\ pool_exists
    /\ Len(appended) > ROOT_HISTORY_SIZE
    /\ pool.root_history_index = Len(appended) % ROOT_HISTORY_SIZE
    /\ ~is_valid_root(pool, IncrementalMerkleTree_new.current_root)
    /\ is_valid_root(pool, appended[Len(appended) - 1].root)

\* C30: in every state pool.nullifier_count is the number of nullifier
\* markers that exist for the pool, and no step decreases it.
C30_NullifierCountIsMarkerCount ==
    /\ [](pool.nullifier_count
            = Cardinality({nf \in Nullifiers : nullifier_marker[nf] # << >>}))
    /\ [][pool'.nullifier_count >= pool.nullifier_count]_vars

\* both nullifiers have been spent, at least one of them by an unshield
C30_Witness ==
    /\ pool_exists
    /\ pool.nullifier_count = 2
    /\ \A nf \in Nullifiers : nullifier_marker[nf] # << >>
    /\ \A nf \in Nullifiers : nullifier_marker[nf][1].pool = PoolKey
    /\ unshielded["sol"] + unshielded["token"] > 0
    /\ \A nf \in Nullifiers : spends[nf] = 1

====
